---- MODULE Spec2Model ----
(***************************************************************************)
(* Orbital-mechanics core of spaceSIM: Gravity.js and KeplerianOrbit.js.   *)
(*                                                                         *)
(* JavaScript numbers are IEEE-754 doubles.  They are modelled as decimal  *)
(* floating-point numbers with Prec significant digits and a bounded       *)
(* exponent: a finite value is m * 10^e with 10^(Prec-1) <= |m| < 10^Prec  *)
(* (or m = 0), results are rounded to nearest, a result whose exponent     *)
(* exceeds MaxExp overflows to +-Infinity, one below -MaxExp underflows    *)
(* to 0, and NaN and +-Infinity propagate as IEEE-754 prescribes.  There   *)
(* is no negative zero.  Math.sin, Math.cos and Math.atan2 are computed    *)
(* in fixed point with four decimals.                                      *)
(***************************************************************************)
EXTENDS Integers, Naturals, Sequences, FiniteSets, TLC

\* ------------------------------------------------------------ bounds

\* Significant decimal digits of a number.
Prec == 3
\* Largest decimal exponent of a finite number.
MaxExp == 40
\* Calls of the core made in one run.
MaxCalls == 3

\* Simulation ticks of a run of the planets.
MaxTicks == 3
\* Listeners registered for one event.
MaxListeners == 3
\* Animation frames of a run of the engine.
MaxFrames == 2
\* Key events queued in an input manager.
MaxKeyEvents == 2
\* Calls of loadTextures / loadModels on an asset manager.
MaxBatches == 2

\* ------------------------------------------------------------ numbers

RECURSIVE Pow10(_)
Pow10(k) == IF k <= 0 THEN 1 ELSE 10 * Pow10(k - 1)

Abs(n) == IF n < 0 THEN -n ELSE n

\* The value of an expression whose operands are evaluated once, as JavaScript
\* evaluates the operands of an operator or the arguments of a call.
Only(S) == CHOOSE v \in S : TRUE

Sgn(n) == IF n < 0 THEN -1 ELSE IF n = 0 THEN 0 ELSE 1

RECURSIVE Digits(_)
Digits(n) == IF n < 10 THEN 1 ELSE 1 + Digits(n \div 10)

NaN == [k |-> "nan", m |-> 0, e |-> 0]

PosInf == [k |-> "inf", m |-> 1, e |-> 0]

NegInf == [k |-> "inf", m |-> -1, e |-> 0]

Zero == [k |-> "fin", m |-> 0, e |-> 0]

\* The value `undefined` of an absent property or an omitted argument.
Undefined == [k |-> "undef", m |-> 0, e |-> 0]

Inf(s) == IF s < 0 THEN NegInf ELSE PosInf

IsNaN(a) == a.k = "nan"

IsInf(a) == a.k = "inf"

IsFinite(a) == a.k = "fin"

IsZero(a) == a.k = "fin" /\ a.m = 0

\* Sign of a number that is not NaN: -1, 0 or 1.
Sign(a) == Sgn(a.m)

\* A magnitude s * m * 10^e with the exponent range applied.
Pack(s0, m0, e0) ==
    Only({
        IF e > MaxExp THEN Inf(s)
        ELSE IF e < -MaxExp THEN Zero
        ELSE [k |-> "fin", m |-> s * m, e |-> e]
    : s \in {s0}, m \in {m0}, e \in {e0} })

\* The number nearest to the integer n times 10^e.
Round(n0, e0) ==
    Only({
        IF n = 0 THEN Zero
        ELSE LET a == Abs(n)
                 d == Digits(a)
             IN  IF d > Prec
                 THEN LET p == Pow10(d - Prec)
                          q == (a + p \div 2) \div p
                      IN  IF q = Pow10(Prec)
                          THEN Pack(Sgn(n), Pow10(Prec - 1), e + (d - Prec) + 1)
                          ELSE Pack(Sgn(n), q, e + (d - Prec))
                 ELSE Pack(Sgn(n), a * Pow10(Prec - d), e - (Prec - d))
    : n \in {n0}, e \in {e0} })

\* The number literal n (an integer) and the literal n * 10^e.
Num(n) == Round(n, 0)

Lit(n, e) == Round(n, e)

Neg(a0) ==
    Only({
        IF a.k = "nan" THEN NaN ELSE [a EXCEPT !.m = -a.m]
    : a \in {a0} })

\* a + b
Add(a0, b0) ==
    Only({
        IF IsNaN(a) \/ IsNaN(b) THEN NaN
        ELSE IF IsInf(a) /\ IsInf(b) THEN (IF a.m = b.m THEN a ELSE NaN)
        ELSE IF IsInf(a) THEN a
        ELSE IF IsInf(b) THEN b
        ELSE IF a.m = 0 THEN b
        ELSE IF b.m = 0 THEN a
        ELSE LET hi == IF a.e >= b.e THEN a ELSE b
                 lo == IF a.e >= b.e THEN b ELSE a
                 d  == hi.e - lo.e
             IN  IF d > Prec + 1 THEN hi
                 ELSE Round(hi.m * Pow10(d) + lo.m, lo.e)
    : a \in {a0}, b \in {b0} })

\* a - b
Sub(a, b) == Add(a, Neg(b))

\* a * b
Mul(a0, b0) ==
    Only({
        IF IsNaN(a) \/ IsNaN(b) THEN NaN
        ELSE IF IsInf(a) \/ IsInf(b)
             THEN (IF a.m = 0 \/ b.m = 0 THEN NaN ELSE Inf(Sgn(a.m) * Sgn(b.m)))
        ELSE Round(a.m * b.m, a.e + b.e)
    : a \in {a0}, b \in {b0} })

\* a / b
Div(a0, b0) ==
    Only({
        IF IsNaN(a) \/ IsNaN(b) THEN NaN
        ELSE IF IsInf(a) THEN (IF IsInf(b) THEN NaN
                               ELSE Inf(a.m * (IF b.m < 0 THEN -1 ELSE 1)))
        ELSE IF IsInf(b) THEN Zero
        ELSE IF b.m = 0 THEN (IF a.m = 0 THEN NaN ELSE Inf(Sgn(a.m)))
        ELSE LET q == (Abs(a.m) * Pow10(Prec + 1)) \div Abs(b.m)
             IN  Round(Sgn(a.m) * Sgn(b.m) * q, a.e - b.e - (Prec + 1))
    : a \in {a0}, b \in {b0} })

\* Largest r in lo..hi with r * r <= n.
RECURSIVE ISqrt(_, _, _)
ISqrt(n, lo, hi) ==
    IF lo >= hi THEN lo
    ELSE LET mid == (lo + hi + 1) \div 2
         IN  IF mid * mid <= n THEN ISqrt(n, mid, hi) ELSE ISqrt(n, lo, mid - 1)

\* Math.sqrt(a)
Sqrt(a0) ==
    Only({
        IF IsNaN(a) THEN NaN
        ELSE IF a.m < 0 THEN NaN
        ELSE IF IsInf(a) THEN PosInf
        ELSE IF a.m = 0 THEN Zero
        ELSE LET sh == IF (a.e + Prec) % 2 = 0 THEN Prec ELSE Prec + 1
                 n  == a.m * Pow10(sh)
             IN  Round(ISqrt(n, 0, 32000), (a.e - sh) \div 2)
    : a \in {a0} })

\* a === b
StrictEq(a0, b0) ==
    Only({
        ~IsNaN(a) /\ ~IsNaN(b) /\ a = b
    : a \in {a0}, b \in {b0} })

\* |a| < |b| for numbers that are not NaN
MagLess(a0, b0) ==
    Only({
        IF IsInf(a) THEN FALSE
        ELSE IF IsInf(b) THEN TRUE
        ELSE IF b.m = 0 THEN FALSE
        ELSE IF a.m = 0 THEN TRUE
        ELSE a.e < b.e \/ (a.e = b.e /\ Abs(a.m) < Abs(b.m))
    : a \in {a0}, b \in {b0} })

\* a < b (false when either is NaN)
Less(a0, b0) ==
    Only({
        IF IsNaN(a) \/ IsNaN(b) THEN FALSE
        ELSE IF Sign(a) # Sign(b) THEN Sign(a) < Sign(b)
        ELSE IF Sign(a) = 0 THEN FALSE
        ELSE IF Sign(a) > 0 THEN MagLess(a, b)
        ELSE MagLess(b, a)
    : a \in {a0}, b \in {b0} })

\* a <= b (false when either is NaN)
LessEq(a0, b0) ==
    Only({
        ~IsNaN(a) /\ ~IsNaN(b) /\ ~Less(b, a)
    : a \in {a0}, b \in {b0} })

AbsNum(a0) ==
    Only({
        IF IsNaN(a) THEN NaN ELSE [a EXCEPT !.m = Abs(a.m)]
    : a \in {a0} })

\* ------------------------------------------------------------ Math.sin, Math.cos, Math.atan2

\* 1.0 in the fixed-point format of the angle functions (four decimals).
FixOne == Pow10(4)

\* Math.PI in fixed point.
PiFix == 31416

TwoPiFix == 2 * PiFix

HalfPiFix == PiFix \div 2

\* 10^k * r modulo one turn.
RECURSIVE ShiftMod(_, _)
ShiftMod(r, k) == IF k <= 0 THEN r ELSE ShiftMod((r * 10) % TwoPiFix, k - 1)

\* The finite angle a in fixed point, reduced to [0, 2 pi).
Angle(a0) ==
    Only({
        LET sh  == a.e + 4
            mag == IF sh >= 0 THEN ShiftMod(Abs(a.m) % TwoPiFix, sh)
                   ELSE IF -sh > Prec THEN 0
                   ELSE (Abs(a.m) + Pow10(-sh) \div 2) \div Pow10(-sh)
        IN  IF a.m < 0 THEN (TwoPiFix - (mag % TwoPiFix)) % TwoPiFix ELSE mag % TwoPiFix
    : a \in {a0} })

\* sin on [0, pi/4]: the series x - x^3/3! + x^5/5! - x^7/7! + x^9/9!.
SinSeries(x0) ==
    Only({
        LET x2 == (x * x) \div FixOne
            t4 == FixOne - x2 \div 72
            t3 == FixOne - ((x2 * t4) \div FixOne) \div 42
            t2 == FixOne - ((x2 * t3) \div FixOne) \div 20
            t1 == FixOne - ((x2 * t2) \div FixOne) \div 6
        IN  (x * t1) \div FixOne
    : x \in {x0} })

\* cos on [0, pi/4]: the series 1 - x^2/2! + x^4/4! - x^6/6! + x^8/8!.
CosSeries(x0) ==
    Only({
        LET x2 == (x * x) \div FixOne
            t4 == FixOne - x2 \div 56
            t3 == FixOne - ((x2 * t4) \div FixOne) \div 30
            t2 == FixOne - ((x2 * t3) \div FixOne) \div 12
        IN  FixOne - ((x2 * t2) \div FixOne) \div 2
    : x \in {x0} })

\* sin on [0, pi/2]: the sine series up to pi/4, the cosine of the complement above.
SinQuadrant(x0) ==
    Only({
        IF x <= HalfPiFix \div 2 THEN SinSeries(x) ELSE CosSeries(HalfPiFix - x)
    : x \in {x0} })

\* sin of a fixed-point angle t in [0, 2 pi).
SinFix(t0) ==
    Only({
        IF t <= HalfPiFix THEN SinQuadrant(t)
        ELSE IF t <= PiFix THEN SinQuadrant(PiFix - t)
        ELSE IF t <= PiFix + HalfPiFix THEN -SinQuadrant(t - PiFix)
        ELSE -SinQuadrant(TwoPiFix - t)
    : t \in {t0} })

\* Math.sin(a)
Sin(a0) ==
    Only({
        IF ~IsFinite(a) THEN NaN ELSE Round(SinFix(Angle(a)), -4)
    : a \in {a0} })

\* Math.cos(a)
Cos(a0) ==
    Only({
        IF ~IsFinite(a) THEN NaN ELSE Round(SinFix((Angle(a) + HalfPiFix) % TwoPiFix), -4)
    : a \in {a0} })

\* A finite number in [0, 1] in fixed point.
UnitFix(a0) ==
    Only({
        LET sh == a.e + 4
        IN  IF sh >= 0 THEN a.m * Pow10(sh)
            ELSE IF -sh > Prec THEN 0
            ELSE (a.m + Pow10(-sh) \div 2) \div Pow10(-sh)
    : a \in {a0} })

\* atan on [0, 1]: the odd polynomial of degree 9 (error below 1e-5).
AtanSeries(t0) ==
    Only({
        LET t2 == (t * t) \div FixOne
            c7 == -851 + (208 * t2) \div FixOne
            c5 == 1801 + (c7 * t2) \div FixOne
            c3 == -3303 + (c5 * t2) \div FixOne
            c1 == 9999 + (c3 * t2) \div FixOne
        IN  (t * c1) \div FixOne
    : t \in {t0} })

\* Math.atan2(y, x)
Atan2(y0, x0) ==
    Only({
        IF IsNaN(y) \/ IsNaN(x) THEN NaN
        ELSE LET ay == AbsNum(y)
                 ax == AbsNum(x)
                 q  == IF IsInf(x) /\ IsInf(y) THEN HalfPiFix \div 2
                       ELSE IF IsInf(y) THEN HalfPiFix
                       ELSE IF IsInf(x) THEN 0
                       ELSE IF y.m = 0 THEN 0
                       ELSE IF x.m = 0 THEN HalfPiFix
                       ELSE IF MagLess(ax, ay) THEN HalfPiFix - AtanSeries(UnitFix(Div(ax, ay)))
                       ELSE AtanSeries(UnitFix(Div(ay, ax)))
                 h  == IF x.m < 0 THEN PiFix - q ELSE q
             IN  Round(IF y.m < 0 THEN -h ELSE h, -4)
    : y \in {y0}, x \in {x0} })

\* Math.PI
MathPI == Round(PiFix, -4)

\* ------------------------------------------------------------ state

VARIABLES
    heap,      \* the objects: heap[ref] is a vector {x, y, z} or an elements record
    gravity,   \* the fields G and SCALE of the object Gravity
    stack,     \* the call stack of the core: frames of getOrbitalVelocity and getOrbitalPosition
    ret,       \* the outcome of the last completed top-level call
    log,       \* the steps of the current (or last) top-level call, in order
    hist,      \* every completed getOrbitalPosition / getOrbitalVelocity call: inputs and result
    calls,     \* number of top-level calls made
    planets,       \* the Planet objects of the solar system, in order
    elapsed,       \* the simulation time: the sum of the deltaTime of the updates so far
    engine,        \* the fields of the Engine object
    spacecraft,    \* the Spacecraft object of the engine (or NoObject)
    inputManager,  \* the InputManager object of the engine
    assetManager,  \* the AssetManager object and its loads in flight
    page,          \* the page: globals of window, listeners of document, frames requested
    trace,         \* the calls observed during the current operation, in order
    boot           \* the position of startup.js in its init

coreVars == <<heap, gravity, stack, ret, log, hist, calls>>

appVars == <<planets, elapsed, engine, spacecraft, inputManager, assetManager, page, trace, boot>>

vars == <<heap, gravity, stack, ret, log, hist, calls,
          planets, elapsed, engine, spacecraft, inputManager, assetManager, page, trace, boot>>

\* No object: null or undefined where an object is expected.
NoObject == [type |-> "none"]

\* The reference that is no object (an argument that is undefined).
NoRef == 0

Vec(x, y, z) == [type |-> "vec", x |-> x, y |-> y, z |-> z]

Elements(a, e, i, O, w, M0, T) ==
    [type |-> "elements", semiMajorAxis |-> a, eccentricity |-> e, inclination |-> i,
     longitudeOfAscendingNode |-> O, argumentOfPeriapsis |-> w,
     meanAnomalyAtEpoch |-> M0, orbitalPeriod |-> T]

\* ------------------------------------------------------------ Gravity.js

\* G: 6.67430e-11
GravityG == Lit(667430, -16)

\* SCALE: 1e9
GravitySCALE == Lit(1, 9)

\* The body of calculateForce on the values of its arguments.
ForceVectorNoGuard(G, m1, m2, pos1, pos2) ==
    LET dx == Sub(pos2.x, pos1.x)
        dy == Sub(pos2.y, pos1.y)
        dz == Sub(pos2.z, pos1.z)
        rSquared == Add(Add(Mul(dx, dx), Mul(dy, dy)), Mul(dz, dz))
        r == Sqrt(rSquared)
        F == Div(Mul(Mul(G, m1), m2), rSquared)
    IN  Vec(Div(Mul(F, dx), r), Div(Mul(F, dy), r), Div(Mul(F, dz), r))

ForceVectorReversed(G, m1, m2, pos1, pos2) ==
    LET dx == Sub(pos1.x, pos2.x)
        dy == Sub(pos1.y, pos2.y)
        dz == Sub(pos1.z, pos2.z)
        rSquared == Add(Add(Mul(dx, dx), Mul(dy, dy)), Mul(dz, dz))
        r == Sqrt(rSquared)
    IN  IF StrictEq(r, Zero) THEN Vec(Zero, Zero, Zero)
        ELSE LET F == Div(Mul(Mul(G, m1), m2), rSquared)
             IN  Vec(Div(Mul(F, dx), r), Div(Mul(F, dy), r), Div(Mul(F, dz), r))

ForceVector(G, m1, m2, pos1, pos2) ==
    LET dx == Sub(pos2.x, pos1.x)
        dy == Sub(pos2.y, pos1.y)
        dz == Sub(pos2.z, pos1.z)
        rSquared == Add(Add(Mul(dx, dx), Mul(dy, dy)), Mul(dz, dz))
        r == Sqrt(rSquared)
    IN  IF StrictEq(r, Zero) THEN Vec(Zero, Zero, Zero)
        ELSE LET F == Div(Mul(Mul(G, m1), m2), rSquared)
             IN  Vec(Div(Mul(F, dx), r), Div(Mul(F, dy), r), Div(Mul(F, dz), r))

\* The body of calculateAcceleration on the values of its arguments.
AccelerationVector(G, m2, pos1, pos2) ==
    LET dx == Sub(pos2.x, pos1.x)
        dy == Sub(pos2.y, pos1.y)
        dz == Sub(pos2.z, pos1.z)
        rSquared == Add(Add(Mul(dx, dx), Mul(dy, dy)), Mul(dz, dz))
        r == Sqrt(rSquared)
    IN  IF StrictEq(r, Zero) THEN Vec(Zero, Zero, Zero)
        ELSE LET a == Div(Mul(G, m2), rSquared)
             IN  Vec(Div(Mul(a, dx), r), Div(Mul(a, dy), r), Div(Mul(a, dz), r))

\* orbitalVelocity(m, r)
OrbitalVelocity(G, m, r) == Sqrt(Div(Mul(G, m), r))

\* A call: the heap after it and the reference it returns.  The object literal
\* of the return statement is a new object.
CalculateForceInPlace(h, G, m1, m2, p1, p2) ==
    [heap |-> [h EXCEPT ![p1] = ForceVector(G, m1, m2, h[p1], h[p2])], ref |-> p1]

CalculateForce(h, G, m1, m2, p1, p2) ==
    [heap |-> Append(h, ForceVector(G, m1, m2, h[p1], h[p2])), ref |-> Len(h) + 1]

CalculateAcceleration(h, G, m2, p1, p2) ==
    [heap |-> Append(h, AccelerationVector(G, m2, h[p1], h[p2])), ref |-> Len(h) + 1]

\* ------------------------------------------------------------ KeplerianOrbit.js

\* A default in the style of `v || d`: it also replaces 0 and NaN.
DefaultWhenFalsy(v, d) == IF v = Undefined \/ IsZero(v) \/ IsNaN(v) THEN d ELSE v

\* A destructuring default: it applies when the property is undefined.
Default(v, d) == IF v = Undefined THEN d ELSE v

\* const { semiMajorAxis = 10, ..., orbitalPeriod = 1 } = elements
Destructure(el) ==
    Elements(Default(el.semiMajorAxis, Num(10)),
             Default(el.eccentricity, Zero),
             Default(el.inclination, Zero),
             Default(el.longitudeOfAscendingNode, Zero),
             Default(el.argumentOfPeriapsis, Zero),
             Default(el.meanAnomalyAtEpoch, Zero),
             Default(el.orbitalPeriod, Num(1)))

\* The mean anomaly advancing by pi per period instead of 2 pi.
MeanAnomalyHalfTurn(M0, time, T) == Add(M0, Div(Mul(MathPI, time), T))

\* The mean anomaly counted from the time of the previous call (kept in a module
\* field) instead of from the epoch.
MeanAnomalyFromLastCall(M0, time, T) ==
    Add(M0, Div(Mul(Mul(Num(2), MathPI), Add(time, Num(Cardinality(hist)))), T))

\* M = meanAnomalyAtEpoch + (2 * Math.PI * time) / orbitalPeriod
MeanAnomaly(M0, time, T) == Add(M0, Div(Mul(Mul(Num(2), MathPI), time), T))

\* E = M + eccentricity * Math.sin(E)
KeplerStep(M, e, E) == Add(M, Mul(e, Sin(E)))

\* The lines after the loop: true anomaly, radius, rotation into 3D.
\* const nu = 2 * Math.atan2(sqrt(1 + e) * sin(E / 2), sqrt(1 - e) * cos(E / 2))
TrueAnomaly(e, E) ==
    Mul(Num(2), Atan2(Mul(Sqrt(Add(Num(1), e)), Sin(Div(E, Num(2)))),
                      Mul(Sqrt(Sub(Num(1), e)), Cos(Div(E, Num(2))))))

\* const r = a * (1 - e * Math.cos(E))
Radius(a, e, E) == Mul(a, Sub(Num(1), Mul(e, Cos(E))))

\* The position in the orbital plane: xOrb, yOrb.
OrbitalPlane(el, E) ==
    Only({ [xOrb |-> Mul(r, Cos(nu)), yOrb |-> Mul(r, Sin(nu))] :
           nu \in {TrueAnomaly(el.eccentricity, E)},
           r \in {Radius(el.semiMajorAxis, el.eccentricity, E)} })

\* The rotation with the x and y rows of the matrix exchanged.
RotateSwapped(xOrb, yOrb, cosO, sinO, cosI, sinI, cosW, sinW) ==
    LET y == Sub(Mul(xOrb, Sub(Mul(cosO, cosW), Mul(Mul(sinO, sinW), cosI))),
                 Mul(yOrb, Add(Mul(cosO, sinW), Mul(Mul(sinO, cosW), cosI))))
        x == Sub(Mul(xOrb, Add(Mul(sinO, cosW), Mul(Mul(cosO, sinW), cosI))),
                 Mul(yOrb, Sub(Mul(sinO, sinW), Mul(Mul(cosO, cosW), cosI))))
        z == Add(Mul(xOrb, Mul(sinW, sinI)), Mul(yOrb, Mul(cosW, sinI)))
    IN  Vec(x, y, z)

\* The rotation of (xOrb, yOrb) by the three angles of the orbit.
Rotate(xOrb, yOrb, cosO, sinO, cosI, sinI, cosW, sinW) ==
    LET x == Sub(Mul(xOrb, Sub(Mul(cosO, cosW), Mul(Mul(sinO, sinW), cosI))),
                 Mul(yOrb, Add(Mul(cosO, sinW), Mul(Mul(sinO, cosW), cosI))))
        y == Sub(Mul(xOrb, Add(Mul(sinO, cosW), Mul(Mul(cosO, sinW), cosI))),
                 Mul(yOrb, Sub(Mul(sinO, sinW), Mul(Mul(cosO, cosW), cosI))))
        z == Add(Mul(xOrb, Mul(sinW, sinI)), Mul(yOrb, Mul(cosW, sinI)))
    IN  Vec(x, y, z)

\* The statements of getOrbitalPosition after the loop, each evaluated once.
OrbitalPoint(el, E) ==
    Only({ Rotate(p.xOrb, p.yOrb, cosO, sinO, cosI, sinI, cosW, sinW) :
           p \in {OrbitalPlane(el, E)},
           cosO \in {Cos(el.longitudeOfAscendingNode)},
           sinO \in {Sin(el.longitudeOfAscendingNode)},
           cosI \in {Cos(el.inclination)},
           sinI \in {Sin(el.inclination)},
           cosW \in {Cos(el.argumentOfPeriapsis)},
           sinW \in {Sin(el.argumentOfPeriapsis)} })

\* const dt = 0.001
VelocityDt == Lit(1, -3)

\* The return statement of getOrbitalVelocity.
VelocityVector(pos1, pos2, dt) ==
    Vec(Div(Sub(pos2.x, pos1.x), dt), Div(Sub(pos2.y, pos1.y), dt), Div(Sub(pos2.z, pos1.z), dt))

\* calculatePeriod(a, mu)
CalculatePeriod(a, mu) == Mul(Mul(Num(2), MathPI), Sqrt(Div(Mul(Mul(a, a), a), mu)))

\* The loop of getOrbitalPosition run n times from E.
RECURSIVE KeplerLoop(_, _, _, _)
KeplerLoop(M, e, E, n) == IF n = 0 THEN E ELSE KeplerLoop(M, e, KeplerStep(M, e, E), n - 1)

\* getOrbitalPosition after the destructuring, as a function of its locals and time.
PositionOf(el, time) ==
    LET M == MeanAnomaly(el.meanAnomalyAtEpoch, time, el.orbitalPeriod)
    IN  OrbitalPoint(el, KeplerLoop(M, el.eccentricity, M, 6))

\* for (let i = 0; i < 6; i++): the loop condition, on the frame of the call.
LoopContinuesUntilConverged(f) ==
    f.i < 6 /\ KeplerStep(f.M, f.el.eccentricity, f.E) # f.E

LoopContinues(f) == f.i < 6

\* ------------------------------------------------------------ calls

NoElements == Elements(Undefined, Undefined, Undefined, Undefined, Undefined, Undefined, Undefined)

Frame(fn, elements, time, muArg, mu, pc, el, M, E) ==
    [fn |-> fn, elements |-> elements, time |-> time, muArg |-> muArg, mu |-> mu, pc |-> pc,
     el |-> el, M |-> M, E |-> E, i |-> 0, pos1 |-> NoRef, pos2 |-> NoRef]

\* getOrbitalPosition(elements, time) up to the loop: the destructuring, M, and let E = M.
PositionFrame(h, elements, time) ==
    LET el == Destructure(h[elements])
        M  == MeanAnomaly(el.meanAnomalyAtEpoch, time, el.orbitalPeriod)
    IN  Frame("getOrbitalPosition", elements, time, Undefined, Undefined, "loop", el, M, M)

\* getOrbitalVelocity(elements, time, mu = 1) up to its first statement.
VelocityFrame(elements, time, mu) ==
    Frame("getOrbitalVelocity", elements, time, mu, Default(mu, Num(1)), "pos1",
          NoElements, Undefined, Undefined)

\* The time of the next position sample of getOrbitalVelocity.
SampleTimeCentral(f) ==
    IF f.pc = "pos1" THEN Sub(f.time, VelocityDt) ELSE Add(f.time, VelocityDt)

SampleTime(f) == IF f.pc = "pos1" THEN f.time ELSE Add(f.time, VelocityDt)

\* The destructuring of the parameter throws a TypeError when elements is undefined;
\* nothing else in the function throws.
DestructuringThrowsOutsideDomain(h, elements) ==
    \/ elements = NoRef
    \/ LessEq(Num(1), Destructure(h[elements]).eccentricity)
    \/ ~LessEq(Zero, Destructure(h[elements]).eccentricity)

DestructuringThrows(h, elements) == elements = NoRef

\* The velocity scaled by sqrt(mu), as a vis-viva formula would.
ReturnVelocityScaled(h, f) ==
    LET v == VelocityVector(h[f.pos1], h[f.pos2], VelocityDt)
        s == Sqrt(f.mu)
    IN  [heap |-> Append(h, Vec(Mul(s, v.x), Mul(s, v.y), Mul(s, v.z))), ref |-> Len(h) + 1]

\* return { x, y, z } of getOrbitalPosition: a new object.
ReturnPosition(h, f) ==
    [heap |-> Append(h, OrbitalPoint(f.el, f.E)), ref |-> Len(h) + 1]

\* return { x: ..., y: ..., z: ... } of getOrbitalVelocity: a new object.
ReturnVelocity(h, f) ==
    [heap |-> Append(h, VelocityVector(h[f.pos1], h[f.pos2], VelocityDt)), ref |-> Len(h) + 1]

Top == stack[Len(stack)]

Idle(limit) == stack = <<>> /\ calls < limit

Returned(fn, nums, refs, ref, num) ==
    [fn |-> fn, status |-> "returned", nums |-> nums, refs |-> refs, ref |-> ref, num |-> num]

\* A TypeError: a property of undefined was read.
Threw(fn, nums, refs) ==
    [fn |-> fn, status |-> "threw", nums |-> nums, refs |-> refs, ref |-> NoRef, num |-> Undefined]

Event(ev, elements, time, E) == [ev |-> ev, elements |-> elements, time |-> time, E |-> E]

Observed(fn, elements, time, mu, result) ==
    [call |-> calls, fn |-> fn, elements |-> elements, time |-> time, mu |-> mu,
     result |-> result]

CallCalculateForce(limit, m1, m2, p1, p2) ==
    /\ Idle(limit)
    /\ calls' = calls + 1
    /\ log' = <<>>
    /\ IF p1 = NoRef \/ p2 = NoRef
       THEN /\ heap' = heap
            /\ ret' = Threw("calculateForce", <<m1, m2>>, <<p1, p2>>)
       ELSE LET out == CalculateForce(heap, gravity.G, m1, m2, p1, p2)
            IN  /\ heap' = out.heap
                /\ ret' = Returned("calculateForce", <<m1, m2>>, <<p1, p2>>, out.ref, Undefined)
    /\ UNCHANGED <<gravity, stack, hist>>
    /\ UNCHANGED appVars

CallCalculateAcceleration(limit, m2, p1, p2) ==
    /\ Idle(limit)
    /\ calls' = calls + 1
    /\ log' = <<>>
    /\ IF p1 = NoRef \/ p2 = NoRef
       THEN /\ heap' = heap
            /\ ret' = Threw("calculateAcceleration", <<m2>>, <<p1, p2>>)
       ELSE LET out == CalculateAcceleration(heap, gravity.G, m2, p1, p2)
            IN  /\ heap' = out.heap
                /\ ret' = Returned("calculateAcceleration", <<m2>>, <<p1, p2>>, out.ref, Undefined)
    /\ UNCHANGED <<gravity, stack, hist>>
    /\ UNCHANGED appVars

CallOrbitalVelocity(limit, m, r) ==
    /\ Idle(limit)
    /\ calls' = calls + 1
    /\ log' = <<>>
    /\ ret' = Returned("orbitalVelocity", <<m, r>>, <<>>, NoRef, OrbitalVelocity(gravity.G, m, r))
    /\ UNCHANGED <<heap, gravity, stack, hist>>
    /\ UNCHANGED appVars

CallCalculatePeriod(limit, a, mu) ==
    /\ Idle(limit)
    /\ calls' = calls + 1
    /\ log' = <<>>
    /\ ret' = Returned("calculatePeriod", <<a, mu>>, <<>>, NoRef, CalculatePeriod(a, mu))
    /\ UNCHANGED <<heap, gravity, stack, hist>>
    /\ UNCHANGED appVars

CallGetOrbitalPosition(limit, elements, time) ==
    /\ Idle(limit)
    /\ calls' = calls + 1
    /\ IF DestructuringThrows(heap, elements)
       THEN /\ ret' = Threw("getOrbitalPosition", <<time>>, <<elements>>)
            /\ log' = <<>>
            /\ stack' = stack
       ELSE LET f == PositionFrame(heap, elements, time)
            IN  /\ stack' = <<f>>
                /\ log' = <<Event("position", elements, time, f.E)>>
                /\ ret' = ret
    /\ UNCHANGED <<heap, gravity, hist>>
    /\ UNCHANGED appVars

\* One pass of the loop body.
KeplerIterate ==
    /\ stack # <<>>
    /\ Top.fn = "getOrbitalPosition"
    /\ LoopContinues(Top)
    /\ LET E == KeplerStep(Top.M, Top.el.eccentricity, Top.E)
       IN  /\ stack' = [stack EXCEPT ![Len(stack)] = [Top EXCEPT !.E = E, !.i = Top.i + 1]]
           /\ log' = Append(log, Event("iterate", Top.elements, Top.time, E))
    /\ UNCHANGED <<heap, gravity, ret, hist, calls>>
    /\ UNCHANGED appVars

\* The loop is left; the position is computed and returned to the caller.
PositionReturn ==
    /\ stack # <<>>
    /\ Top.fn = "getOrbitalPosition"
    /\ ~LoopContinues(Top)
    /\ LET out == ReturnPosition(heap, Top)
       IN  /\ heap' = out.heap
           /\ hist' = hist \cup {Observed("getOrbitalPosition", heap[Top.elements], Top.time,
                                          Undefined, out.heap[out.ref])}
           /\ log' = Append(log, Event("return", Top.elements, Top.time, Top.E))
           /\ IF Len(stack) = 1
              THEN /\ stack' = <<>>
                   /\ ret' = Returned("getOrbitalPosition", <<Top.time>>, <<Top.elements>>,
                                      out.ref, Undefined)
              ELSE /\ stack' = <<IF stack[1].pc = "await1"
                                 THEN [stack[1] EXCEPT !.pos1 = out.ref, !.pc = "pos2"]
                                 ELSE [stack[1] EXCEPT !.pos2 = out.ref, !.pc = "return"]>>
                   /\ ret' = ret
    /\ UNCHANGED <<gravity, calls>>
    /\ UNCHANGED appVars

CallGetOrbitalVelocity(limit, elements, time, mu) ==
    /\ Idle(limit)
    /\ calls' = calls + 1
    /\ stack' = <<VelocityFrame(elements, time, mu)>>
    /\ log' = <<Event("velocity", elements, time, Undefined)>>
    /\ UNCHANGED <<heap, gravity, ret, hist>>
    /\ UNCHANGED appVars

\* const pos1 = this.getOrbitalPosition(elements, time), and the same for pos2.
VelocitySample ==
    /\ stack # <<>>
    /\ Top.fn = "getOrbitalVelocity"
    /\ Top.pc \in {"pos1", "pos2"}
    /\ IF DestructuringThrows(heap, Top.elements)
       THEN /\ stack' = <<>>
            /\ ret' = Threw("getOrbitalVelocity", <<Top.time, Top.muArg>>, <<Top.elements>>)
            /\ log' = log
       ELSE LET f == PositionFrame(heap, Top.elements, SampleTime(Top))
            IN  /\ stack' = <<[Top EXCEPT !.pc = IF Top.pc = "pos1" THEN "await1" ELSE "await2"],
                              f>>
                /\ log' = Append(log, Event("position", f.elements, f.time, f.E))
                /\ ret' = ret
    /\ UNCHANGED <<heap, gravity, hist, calls>>
    /\ UNCHANGED appVars

VelocityReturn ==
    /\ stack # <<>>
    /\ Top.fn = "getOrbitalVelocity"
    /\ Top.pc = "return"
    /\ LET out == ReturnVelocity(heap, Top)
       IN  /\ heap' = out.heap
           /\ hist' = hist \cup {Observed("getOrbitalVelocity", heap[Top.elements], Top.time,
                                          Top.muArg, out.heap[out.ref])}
           /\ ret' = Returned("getOrbitalVelocity", <<Top.time, Top.muArg>>, <<Top.elements>>,
                              out.ref, Undefined)
    /\ log' = Append(log, Event("returnVelocity", Top.elements, Top.time, Undefined))
    /\ stack' = <<>>
    /\ UNCHANGED <<gravity, calls>>
    /\ UNCHANGED appVars

NoCall == [fn |-> "none", status |-> "none", nums |-> <<>>, refs |-> <<>>, ref |-> NoRef,
           num |-> Undefined]

\* No application object exists: only the two utility modules are in use.
NoApplication ==
    /\ planets = <<>>
    /\ elapsed = Zero
    /\ engine = NoObject
    /\ spacecraft = NoObject
    /\ inputManager = NoObject
    /\ assetManager = NoObject
    /\ page = NoObject
    /\ trace = <<>>
    /\ boot = "none"

\* The utility modules once the scripts are loaded, with the caller's objects `objects`.
CoreLoaded(objects) ==
    /\ heap = objects
    /\ gravity = [G |-> GravityG, SCALE |-> GravitySCALE]
    /\ stack = <<>>
    /\ ret = NoCall
    /\ log = <<>>
    /\ hist = {}
    /\ calls = 0

\* The utility modules alone, with the caller's objects.
Loaded(objects) == CoreLoaded(objects) /\ NoApplication

\* ------------------------------------------------------------ the Gravity functions on drawn inputs

GravityXs == {Zero, Num(-2), Lit(3844, 5), Lit(1, 25)}

GravityYs == {Zero, Num(3), Lit(1, -25)}

GravityZs == {Zero, Num(-1)}

GravityPositions == {Vec(x, y, z) : x \in GravityXs, y \in GravityYs, z \in GravityZs}

GravityMasses ==
    {Zero, Num(1), Num(-1), Lit(5972, 21), Lit(7342, 19), Lit(1, -30), Lit(1, 30), NaN, PosInf}

GravityOtherMasses == {Num(1), Num(-1), Lit(7342, 19), Lit(1, 30)}

InitGravity == \E pos1, pos2 \in GravityPositions : Loaded(<<pos1, pos2>>)

NextGravity ==
    \/ \E m1 \in GravityMasses, m2 \in GravityOtherMasses : CallCalculateForce(1, m1, m2, 1, 2)
    \/ \E m2 \in GravityMasses : CallCalculateAcceleration(1, m2, 1, 2)
    \/ \E m \in GravityOtherMasses, r \in GravityXs : CallOrbitalVelocity(1, m, r)

SpecGravity == InitGravity /\ [][NextGravity]_vars

\* ------------------------------------------------------------ the KeplerianOrbit functions on drawn inputs

ElementFields ==
    {"semiMajorAxis", "eccentricity", "inclination", "longitudeOfAscendingNode",
     "argumentOfPeriapsis", "meanAnomalyAtEpoch", "orbitalPeriod"}

\* The elements record el without the properties in absent.
Without(el, absent) == [f \in DOMAIN el |-> IF f \in absent THEN Undefined ELSE el[f]]

\* a = 100, e = 0.5, i = 0.5, Omega = 1, omega = 2, M0 = 0.3, T = 4
KeplerBase == Elements(Num(100), Lit(5, -1), Lit(5, -1), Num(1), Num(2), Lit(3, -1), Num(4))

KeplerElements ==
    {Without(KeplerBase, absent) : absent \in SUBSET ElementFields}
    \cup {Elements(Zero, Zero, Zero, Zero, Zero, Zero, Num(2)),
          Elements(Num(100), Zero, Undefined, Undefined, Undefined, Undefined, Num(365)),
          Elements(Num(5), Lit(9, -1), Zero, Zero, Num(1), Zero, Num(1)),
          Elements(Lit(5, -1), Zero, Zero, Zero, Zero, Zero, Num(4)),
          Elements(Num(-3), Zero, Zero, Zero, Zero, Zero, Num(-2))}

KeplerTimes == {Zero, Lit(25, -2), Lit(15, -1)}

InitKepler == \E el \in KeplerElements : Loaded(<<el>>)

NextKepler ==
    \/ \E time \in KeplerTimes : CallGetOrbitalPosition(1, 1, time)
    \/ KeplerIterate
    \/ PositionReturn
    \/ \E time \in KeplerTimes : CallGetOrbitalVelocity(1, 1, time, Undefined)
    \/ VelocitySample
    \/ VelocityReturn

SpecKepler == InitKepler /\ [][NextKepler]_vars

\* ------------------------------------------------------------ sequences of calls of the core

\* The caller's objects: two positions 5 apart, an orbit of the documented domain, and an
\* orbit with eccentricity 1.5 and most fields absent.
CoreObjects ==
    <<Vec(Zero, Zero, Zero),
      Vec(Num(3), Zero, Num(-4)),
      KeplerBase,
      Elements(Undefined, Lit(15, -1), Undefined, Undefined, Num(1), Undefined, Undefined)>>

InitCore == Loaded(CoreObjects)

NextCore ==
    \/ \E elements \in {NoRef, 3, 4} : CallGetOrbitalPosition(MaxCalls, elements, Zero)
    \/ KeplerIterate
    \/ PositionReturn
    \/ \E mu \in {Undefined, Num(5)} : CallGetOrbitalVelocity(MaxCalls, 3, Zero, mu)
    \/ CallGetOrbitalVelocity(MaxCalls, 4, Zero, Undefined)
    \/ VelocitySample
    \/ VelocityReturn
    \/ CallCalculateForce(MaxCalls, Num(-1), Num(3), 1, 2)
    \/ CallCalculateForce(MaxCalls, Num(2), Num(3), 1, 1)
    \/ CallCalculateAcceleration(MaxCalls, Num(-1), 2, 1)
    \/ \E r \in {Zero, Num(-1)} : CallOrbitalVelocity(MaxCalls, Num(2), r)
    \/ CallCalculatePeriod(MaxCalls, Num(-1), Zero)

SpecCore == InitCore /\ [][NextCore]_vars

\* ------------------------------------------------------------ Planet.js

\* A value that `||` replaces by its right operand: undefined, 0 or NaN.
Falsy(v) == v = Undefined \/ IsNaN(v) \/ IsZero(v)

\* v || d
OrElse(v, d) == IF Falsy(v) THEN d ELSE v

PlanetConfig(radius, a, orbitRadius, e, i, O, w, M0, T, orbitSpeed, rotationSpeed, initialPosition) ==
    [radius |-> radius, semiMajorAxis |-> a, orbitRadius |-> orbitRadius, eccentricity |-> e,
     inclination |-> i, longitudeOfAscendingNode |-> O, argumentOfPeriapsis |-> w,
     meanAnomalyAtEpoch |-> M0, orbitalPeriod |-> T, orbitSpeed |-> orbitSpeed,
     rotationSpeed |-> rotationSpeed, initialPosition |-> initialPosition]

\* new Planet(config): the fields of the planet and its mesh at the origin.
Planet(config) ==
    [type |-> "planet",
     radius |-> OrElse(config.radius, Num(1)),
     semiMajorAxis |-> OrElse(config.semiMajorAxis, OrElse(config.orbitRadius, Num(10))),
     eccentricity |-> IF config.eccentricity # Undefined THEN config.eccentricity ELSE Zero,
     inclination |-> OrElse(config.inclination, Zero),
     longitudeOfAscendingNode |-> OrElse(config.longitudeOfAscendingNode, Zero),
     argumentOfPeriapsis |-> OrElse(config.argumentOfPeriapsis, Zero),
     meanAnomalyAtEpoch |-> OrElse(config.meanAnomalyAtEpoch, Zero),
     orbitalPeriod |-> OrElse(config.orbitalPeriod, OrElse(config.orbitSpeed, Num(1))),
     rotationSpeed |-> OrElse(config.rotationSpeed, Lit(5, -1)),
     orbitAngle |-> OrElse(config.initialPosition, Zero),
     object |-> TRUE,
     position |-> Vec(Zero, Zero, Zero),
     rotationY |-> Zero]

\* update(deltaTime) of the planet p; `time` is the simulation time after the update,
\* which the code does not use.
PlanetUpdate(p, deltaTime, time) ==
    IF ~p.object THEN p
    ELSE Only({ [p EXCEPT !.orbitAngle = orbitAngle,
                          !.position = Vec(Mul(Cos(orbitAngle), p.semiMajorAxis), Zero,
                                           Mul(Sin(orbitAngle), p.semiMajorAxis)),
                          !.rotationY = Add(p.rotationY, Mul(p.rotationSpeed, deltaTime))] :
                orbitAngle \in {Add(p.orbitAngle,
                                    Mul(Div(deltaTime, p.orbitalPeriod), Lit(1, -1)))} })

\* One simulation tick of the planets: update(deltaTime) of each.
PlanetsTick(limit, deltaTime) ==
    /\ planets # <<>>
    /\ Len(trace) < limit
    /\ \E time \in {Add(elapsed, deltaTime)} :
          /\ elapsed' = time
          /\ planets' = [k \in DOMAIN planets |-> PlanetUpdate(planets[k], deltaTime, time)]
    /\ trace' = Append(trace, [op |-> "Planet.update", deltaTime |-> deltaTime])
    /\ UNCHANGED coreVars
    /\ UNCHANGED <<engine, spacecraft, inputManager, assetManager, page, boot>>

\* ------------------------------------------------------------ the planets on their own

\* An empty config; the elements of KeplerBase; a legacy config (orbitRadius, orbitSpeed,
\* initialPosition); a circular orbit of radius 100 and period 365.
PlanetConfigs ==
    {PlanetConfig(Undefined, Undefined, Undefined, Undefined, Undefined, Undefined, Undefined,
                  Undefined, Undefined, Undefined, Undefined, Undefined),
     PlanetConfig(Num(2), Num(100), Undefined, Lit(5, -1), Lit(5, -1), Num(1), Num(2),
                  Lit(3, -1), Num(4), Undefined, Num(1), Undefined),
     PlanetConfig(Num(3), Undefined, Num(20), Zero, Undefined, Undefined, Undefined,
                  Undefined, Undefined, Num(2), Undefined, Num(1)),
     PlanetConfig(Num(1), Num(100), Undefined, Zero, Zero, Zero, Zero,
                  Zero, Num(365), Undefined, Undefined, Undefined)}

\* The deltaTime of a frame: 16 ms, half a second, a second.
PlanetDeltaTimes == {Lit(16, -3), Lit(5, -1), Num(1)}

InitPlanet ==
    /\ CoreLoaded(<<>>)
    /\ \E config \in PlanetConfigs : planets = <<Planet(config)>>
    /\ elapsed = Zero
    /\ engine = NoObject
    /\ spacecraft = NoObject
    /\ inputManager = NoObject
    /\ assetManager = NoObject
    /\ page = NoObject
    /\ trace = <<>>
    /\ boot = "none"

NextPlanet == \E deltaTime \in PlanetDeltaTimes : PlanetsTick(MaxTicks, deltaTime)

SpecPlanet == InitPlanet /\ [][NextPlanet]_vars

\* ------------------------------------------------------------ the page

\* The classes Engine.js declares: they exist whenever Engine does.
EngineJsClasses == {"Engine", "AssetManager", "InputManager", "Environment"}

\* What startup.js requires before it creates the engine.
RequiredDependencies ==
    {"THREE", "THREE.Scene", "CONFIG", "Entity", "SceneManager", "AssetManager", "Engine"}

\* A page: the globals its scripts defined, what window.ThreeLoader.init(),
\* AudioManager.init() and Game.init() do ("absent" when the global is undefined;
\* ThreeLoader.init resolves to "true" or "false"), window.engine, whether the document
\* has the key listeners of the engine, the animation frames requested and not yet
\* run, the clock (ms), the frames run so far, the loading screen and its timer.
Page(classes, threeLoader, audioManager, game) ==
    [type |-> "page", classes |-> classes,
     ThreeLoader |-> threeLoader, AudioManager |-> audioManager, Game |-> game,
     engine |-> "undefined",
     keyListeners |-> FALSE,
     frames |-> 0, now |-> 0, frameCount |-> 0,
     loadingScreen |-> "shown", hideTimer |-> FALSE]

\* verifyDependencies() that reports every dependency as present.
VerifyDependenciesSkipped(pg) == "Engine" \in pg.classes

\* verifyDependencies()
VerifyDependencies(pg) == RequiredDependencies \subseteq pg.classes

\* ------------------------------------------------------------ Spacecraft.js

\* The control flags of a spacecraft.
ControlFlags ==
    {"isAccelerating", "isDecelerating", "isTurningLeft", "isTurningRight",
     "isPitchingUp", "isPitchingDown", "isRollingLeft", "isRollingRight"}

\* new Spacecraft(): at rest at (60, 3, 60) with no control active. With the GLTF model
\* the object keeps the rotation of the model; the simple geometry is turned by PI.
Spacecraft(hasModel) ==
    [type |-> "Spacecraft",
     speed |-> Zero, maxSpeed |-> Num(2), acceleration |-> Lit(5, -2),
     rotationSpeed |-> Lit(2, -2),
     flags |-> [f \in ControlFlags |-> FALSE],
     object |-> TRUE,
     position |-> Vec(Num(60), Num(3), Num(60)),
     rotation |-> Vec(Zero, IF hasModel THEN Zero ELSE MathPI, Zero)]

\* accelerate(active), decelerate(active), turnLeft(active), ...: one flag is assigned.
SetControl(craft, flag, active) == [craft EXCEPT !.flags[flag] = active]

\* Math.min / Math.max of two numbers that are not NaN.
Min(a, b) == IF Less(b, a) THEN b ELSE a

Max(a, b) == IF Less(a, b) THEN b ELSE a

\* The speed after one update.
SpacecraftSpeed(craft) ==
    IF craft.flags["isAccelerating"]
    THEN Min(Add(craft.speed, craft.acceleration), craft.maxSpeed)
    ELSE IF craft.flags["isDecelerating"]
    THEN Max(Sub(craft.speed, craft.acceleration), Mul(Neg(craft.maxSpeed), Lit(5, -1)))
    ELSE Only({ IF Less(AbsNum(slowed), Lit(1, -3)) THEN Zero ELSE slowed :
                slowed \in {Mul(craft.speed, Lit(99, -2))} })

\* The rotation after one update.
SpacecraftRotation(craft) ==
    LET r == craft.rotation
        half == Mul(craft.rotationSpeed, Lit(5, -1))
        quarter == Div(MathPI, Num(4))
        y1 == IF craft.flags["isTurningLeft"] THEN Add(r.y, craft.rotationSpeed) ELSE r.y
        y2 == IF craft.flags["isTurningRight"] THEN Sub(y1, craft.rotationSpeed) ELSE y1
        x1 == IF craft.flags["isPitchingUp"] THEN Min(Add(r.x, half), quarter) ELSE r.x
        x2 == IF craft.flags["isPitchingDown"] THEN Max(Sub(x1, half), Neg(quarter)) ELSE x1
        z1 == IF craft.flags["isRollingLeft"] THEN Add(r.z, half) ELSE r.z
        z2 == IF craft.flags["isRollingRight"] THEN Sub(z1, half) ELSE z1
    IN  Vec(x2, y2, z2)

\* (0, 0, -1) turned by the rotation r of the object (Euler angles, order XYZ).
Direction(r) ==
    Vec(Neg(Sin(r.y)), Mul(Sin(r.x), Cos(r.y)), Neg(Mul(Cos(r.x), Cos(r.y))))

\* c += d * this.speed * deltaTime * 60
Advance(c, d, speed, deltaTime) == Add(c, Mul(Mul(Mul(d, speed), deltaTime), Num(60)))

\* update(deltaTime) of the spacecraft.
SpacecraftUpdate(craft, deltaTime) ==
    IF ~craft.object THEN craft
    ELSE Only({ [craft EXCEPT
                   !.speed = speed,
                   !.rotation = rotation,
                   !.position = Vec(Advance(craft.position.x, direction.x, speed, deltaTime),
                                    Advance(craft.position.y, direction.y, speed, deltaTime),
                                    Advance(craft.position.z, direction.z, speed, deltaTime))] :
                speed \in {SpacecraftSpeed(craft)},
                rotation \in {SpacecraftRotation(craft)},
                direction \in {Direction(SpacecraftRotation(craft))} })

\* ------------------------------------------------------------ Engine.js: Engine

\* new Engine(): no manager, no entity, not initialized, not running, not paused, and
\* no listener. A manager field holds "null" or the kind of object assigned to it.
EngineNew ==
    [type |-> "engine",
     sceneManager |-> "null", assetManager |-> "null", inputManager |-> "null",
     audioManager |-> "null", solarSystem |-> "null", environment |-> "null",
     isInitialized |-> FALSE, isRunning |-> FALSE, isPaused |-> FALSE,
     lastTime |-> Zero,
     eventListeners |-> << >>]

\* A callback passed to on(): it is known by its id, and it returns or throws.
Listener(id, throws) == [id |-> id, throws |-> throws]

\* The listeners of an event: eventListeners[event], or none when the key is absent.
ListenersOf(eng, event) ==
    IF event \in DOMAIN eng.eventListeners THEN eng.eventListeners[event] ELSE <<>>

\* on(event, callback): the engine with the callback pushed on the event's array.
EngineOn(eng, event, callback) ==
    [eng EXCEPT !.eventListeners =
        [ev \in DOMAIN eng.eventListeners \cup {event} |->
            IF ev = event THEN Append(ListenersOf(eng, event), callback)
            ELSE eng.eventListeners[ev]]]

\* The call of one listener, as observed.
ListenerCall(event, callback) ==
    [op |-> "listener", event |-> event, id |-> callback.id, threw |-> callback.throws]

Returns(op) == [op |-> "return", of |-> op]

Throws(op) == [op |-> "throw", of |-> op]

\* trigger without the try/catch around a callback: the first listener that throws ends
\* the loop and trigger throws.
TriggerUnprotected(eng, event) ==
    LET ls == ListenersOf(eng, event)
        bad == {k \in 1..Len(ls) : ls[k].throws}
        last == IF bad = {} THEN Len(ls) ELSE CHOOSE k \in bad : \A j \in bad : k <= j
    IN  [k \in 1..last |-> ListenerCall(event, ls[k])]
        \o <<IF bad = {} THEN Returns("trigger") ELSE Throws("trigger")>>

\* trigger(event, data): the calls it makes, in order, and its return. An error thrown by
\* a callback is caught and logged.
Trigger(eng, event) ==
    LET ls == ListenersOf(eng, event)
    IN  [k \in 1..Len(ls) |-> ListenerCall(event, ls[k])] \o <<Returns("trigger")>>

\* engine.on(event, callback), called by a user of the engine.
CallOn(limit, event, callback) ==
    /\ engine # NoObject
    /\ Len(ListenersOf(engine, event)) < limit
    /\ engine' = EngineOn(engine, event, callback)
    /\ trace' = <<[op |-> "on", event |-> event, id |-> callback.id]>>
    /\ UNCHANGED coreVars
    /\ UNCHANGED <<planets, elapsed, spacecraft, inputManager, assetManager, page, boot>>

\* engine.trigger(event), called by a user of the engine.
CallTrigger(event) ==
    /\ engine # NoObject
    /\ trace' = <<[op |-> "trigger", event |-> event]>> \o Trigger(engine, event)
    /\ UNCHANGED coreVars
    /\ UNCHANGED <<planets, elapsed, engine, spacecraft, inputManager, assetManager, page, boot>>

\* ------------------------------------------------------------ Engine.js: InputManager, AssetManager

\* new InputManager(): no key is down and no key event is queued.
InputManagerNew == [type |-> "InputManager", keys |-> {}, keyEvents |-> <<>>]

\* The methods the engine calls on its input manager, by the kind of the manager: the
\* class declares neither of them, the substitute object declares the first one.
HasMethod(kind, method) ==
    /\ kind = "fallback"
    /\ method \in {"addKeyBinding", "removeKeyBinding", "isKeyPressed"}

\* new AssetManager(): nothing is stored and no batch of loads was started. The model
\* loader is THREE.GLTFLoader, or the mock loader when the page has no such class.
AssetManager(gltfLoader) ==
    [type |-> "AssetManager",
     textureLoader |-> "TextureLoader", gltfLoader |-> gltfLoader,
     textures |-> << >>, models |-> << >>,
     batches |-> << >>]

\* getTexture(key) / getModel(key) on a store: the stored value, or null.
GetAsset(store, key) ==
    IF key \in DOMAIN store /\ store[key] # "null" THEN store[key] ELSE "null"

\* Map set: store.set(key, value)
MapSet(store, key, value) ==
    [k \in DOMAIN store \cup {key} |-> IF k = key THEN value ELSE store[k]]

\* An item of a list to load.
Item(key, path) == [key |-> key, path |-> path]

\* The promise of a batch whose item promises reject on an error: the first error
\* rejects it.
BatchPromiseRejecting(items, reported) ==
    IF \E k \in 1..Len(reported) : reported[k].outcome = "error" THEN "rejected"
    ELSE IF Len(reported) = Len(items) THEN "resolved"
    ELSE "pending"

\* The promise loadTextures / loadModels returned for a list of items of which those
\* in `reported` have called back: Promise.all of promises that resolve on a load and
\* on an error.
BatchPromise(items, reported) ==
    IF Len(reported) = Len(items) THEN "resolved" ELSE "pending"

\* A call of loadTextures / loadModels: the list, the callbacks of the loader so far,
\* in order, and the promise returned.
Batch(kind, items, reported) ==
    [kind |-> kind, items |-> items, reported |-> reported,
     promise |-> BatchPromise(items, reported)]

\* The store after the callbacks `reported` of a batch, from the n-th on: a load sets
\* the key of its item, an error sets nothing.
RECURSIVE Stored(_, _, _, _)
Stored(store, items, reported, n) ==
    IF n > Len(reported) THEN store
    ELSE Stored(IF reported[n].outcome = "load"
                THEN MapSet(store, items[reported[n].item].key, reported[n].value)
                ELSE store,
                items, reported, n + 1)

\* The mock loader calls onLoad(null) inside load: every item reports at once.
MockReports(items) ==
    [k \in 1..Len(items) |-> [item |-> k, outcome |-> "load", value |-> "null"]]

\* assetManager.loadTextures(list) / loadModels(list), called by a user of the manager:
\* the loads are started; with the mock loader they also complete.
CallLoad(limit, kind, items) ==
    /\ assetManager # NoObject
    /\ Len(assetManager.batches) < limit
    /\ \E reported \in {IF kind = "models" /\ assetManager.gltfLoader = "mock"
                         THEN MockReports(items) ELSE <<>>} :
          assetManager' =
             [assetManager EXCEPT
                !.batches = Append(@, Batch(kind, items, reported)),
                !.models = IF kind = "models" THEN Stored(@, items, reported, 1) ELSE @]
    /\ trace' = <<[op |-> "load", kind |-> kind, items |-> items]>>
    /\ UNCHANGED coreVars
    /\ UNCHANGED <<planets, elapsed, engine, spacecraft, inputManager, page, boot>>

\* The loader calls back for item k of batch b: onLoad with the loaded value, or
\* onError. A load is stored; either way the item is counted and its promise resolved.
LoaderReports(b, k, outcome) ==
    /\ assetManager # NoObject
    /\ b \in DOMAIN assetManager.batches
    /\ k \in DOMAIN assetManager.batches[b].items
    /\ \A n \in DOMAIN assetManager.batches[b].reported :
          assetManager.batches[b].reported[n].item # k
    /\ \E batch \in {assetManager.batches[b]} :
       \E report \in {[item |-> k, outcome |-> outcome,
                        value |-> IF outcome = "error" THEN "null"
                                  ELSE IF batch.kind = "models" THEN "gltf" ELSE "texture"]} :
          assetManager' =
             [assetManager EXCEPT
                !.batches[b] = Batch(batch.kind, batch.items, Append(batch.reported, report)),
                !.textures = IF batch.kind = "textures"
                             THEN Stored(@, batch.items, <<report>>, 1) ELSE @,
                !.models = IF batch.kind = "models"
                           THEN Stored(@, batch.items, <<report>>, 1) ELSE @]
    /\ trace' = <<[op |-> "loader", batch |-> b, item |-> k, outcome |-> outcome]>>
    /\ UNCHANGED coreVars
    /\ UNCHANGED <<planets, elapsed, engine, spacecraft, inputManager, page, boot>>

\* ------------------------------------------------------------ Engine.js: init

\* The five steps of init, in order.
InitSteps ==
    <<"_initThreeJs", "_initCoreManagers", "_loadAssets", "_createGameWorld",
      "_setupInputHandlers">>

\* The start-up before the script ran: nothing done, init not called.
BootNew == [pc |-> "load", steps |-> <<>>, initResult |-> "none", started |-> FALSE]

\* A step of init has run to its end: it is recorded and the next one is due.
StepDone(b, step, next) == [b EXCEPT !.pc = next, !.steps = Append(b.steps, step)]

\* A step threw without the catch of init: the error leaves init, whose caller gets a
\* rejected promise instead of false and fails in the same way.
InitThrowsUncaught(b, step) ==
    [b EXCEPT !.pc = "failed", !.steps = Append(b.steps, step), !.initResult = "threw"]

\* A step threw: init catches the error and returns false; the start-up throws on the
\* false, catches its own error and returns false.
InitThrows(b, step) ==
    [b EXCEPT !.pc = "failed", !.steps = Append(b.steps, step), !.initResult = "false"]

\* start(): nothing when running; else isRunning and lastTime are set. The frame it
\* requests is counted by the caller.
EngineStart(eng, now) ==
    IF eng.isRunning THEN eng ELSE [eng EXCEPT !.isRunning = TRUE, !.lastTime = now]

\* startup.js, lines 42-61: the dependencies are verified; the engine is created and
\* its init called, or the start-up returns false.
Startup ==
    /\ page # NoObject
    /\ boot.pc = "load"
    /\ IF VerifyDependencies(page)
       THEN /\ engine' = EngineNew
            /\ page' = [page EXCEPT !.engine = "engine"]
            /\ boot' = [boot EXCEPT !.pc = "_initThreeJs"]
       ELSE /\ boot' = [boot EXCEPT !.pc = "failed"]
            /\ UNCHANGED <<engine, page>>
    /\ trace' = <<[op |-> "startup"]>>
    /\ UNCHANGED coreVars
    /\ UNCHANGED <<planets, elapsed, spacecraft, inputManager, assetManager>>

\* _initThreeJs: throws without window.ThreeLoader or when its init rejects; a false
\* result is only logged.
InitThreeJs ==
    /\ boot.pc = "_initThreeJs"
    /\ boot' = IF page.ThreeLoader \in {"absent", "rejects"}
               THEN InitThrows(boot, "_initThreeJs")
               ELSE StepDone(boot, "_initThreeJs", "_initCoreManagers")
    /\ trace' = <<[op |-> "_initThreeJs"]>>
    /\ UNCHANGED coreVars
    /\ UNCHANGED <<planets, elapsed, engine, spacecraft, inputManager, assetManager, page>>

\* _initCoreManagers: the scene manager, then the asset, input and audio managers, each
\* of its class or a substitute object; the init of an audio manager may reject.
InitCoreManagers ==
    /\ boot.pc = "_initCoreManagers"
    /\ engine' = [engine EXCEPT
                    !.sceneManager = "SceneManager",
                    !.assetManager =
                        IF "AssetManager" \in page.classes THEN "AssetManager" ELSE "fallback",
                    !.inputManager =
                        IF "InputManager" \in page.classes THEN "InputManager" ELSE "fallback",
                    !.audioManager =
                        IF page.AudioManager = "absent" THEN "fallback" ELSE "AudioManager"]
    /\ assetManager' =
          IF "AssetManager" \in page.classes
          THEN AssetManager(IF "THREE.GLTFLoader" \in page.classes THEN "GLTFLoader"
                            ELSE "mock")
          ELSE NoObject
    /\ inputManager' = IF "InputManager" \in page.classes THEN InputManagerNew ELSE NoObject
    /\ boot' = IF page.AudioManager = "rejects"
               THEN InitThrows(boot, "_initCoreManagers")
               ELSE StepDone(boot, "_initCoreManagers", "_loadAssets")
    /\ trace' = <<[op |-> "_initCoreManagers"]>>
    /\ UNCHANGED coreVars
    /\ UNCHANGED <<planets, elapsed, spacecraft, page>>

\* _loadAssets: the textures and models of the configuration are loaded; each load may
\* fail, and the step never throws. `model` is what the load of the spacecraft model
\* stored ("null": the load failed or no model is configured).
LoadAssets(model) ==
    /\ boot.pc = "_loadAssets"
    /\ assetManager' =
          IF assetManager = NoObject \/ model = "null" THEN assetManager
          ELSE [assetManager EXCEPT !.models = [key \in {"spacecraft"} |-> model]]
    /\ boot' = StepDone(boot, "_loadAssets", "_createGameWorld")
    /\ trace' = <<[op |-> "_loadAssets"]>>
    /\ UNCHANGED coreVars
    /\ UNCHANGED <<planets, elapsed, engine, spacecraft, inputManager, page>>

\* _createGameWorld: the environment, the solar system with the planets `bodies` when
\* the class SolarSystem exists, and the spacecraft when the class Spacecraft exists.
CreateGameWorld(bodies) ==
    /\ boot.pc = "_createGameWorld"
    /\ engine' = [engine EXCEPT
                    !.environment =
                        IF "Environment" \in page.classes THEN "Environment" ELSE "null",
                    !.solarSystem =
                        IF "SolarSystem" \in page.classes THEN "SolarSystem" ELSE "null"]
    /\ planets' = IF "SolarSystem" \in page.classes THEN bodies ELSE <<>>
    /\ spacecraft' =
          IF "Spacecraft" \in page.classes
          THEN Spacecraft(assetManager # NoObject
                          /\ GetAsset(assetManager.models, "spacecraft") # "null")
          ELSE NoObject
    /\ boot' = StepDone(boot, "_createGameWorld", "_setupInputHandlers")
    /\ trace' = <<[op |-> "_createGameWorld"]>>
    /\ UNCHANGED coreVars
    /\ UNCHANGED <<elapsed, inputManager, assetManager, page>>

\* _setupInputHandlers: whether the document gets the key listeners of the engine. The
\* two addKeyBinding calls come first; when the input manager has no such method the
\* TypeError is caught and the listeners are not added.
KeyListenersAdded(eng) ==
    eng.inputManager # "null" /\ HasMethod(eng.inputManager, "addKeyBinding")

\* _setupInputHandlers: the page after it.
SetupInputHandlers(eng, pg) ==
    [pg EXCEPT !.keyListeners = @ \/ KeyListenersAdded(eng)]

\* startup.js, lines 76-85: the engine is started, which requests the first frame, and
\* the timer that hides the loading screen is set.
StartupStart ==
    /\ engine' = [EngineStart(engine, page.now) EXCEPT !.isInitialized = TRUE]
    /\ page' = [SetupInputHandlers(engine, page) EXCEPT
                  !.frames = IF engine.isRunning THEN @ ELSE @ + 1,
                  !.hideTimer = TRUE]
    /\ boot' = [StepDone(boot, "_setupInputHandlers", "done") EXCEPT
                  !.initResult = "true", !.started = TRUE]

\* init, lines 66-73, and the start-up after it: the input handlers are set up,
\* isInitialized is set and init returns true; the start-up then starts the engine, or
\* first awaits the init of the Game when that class exists.
FinishInit ==
    /\ boot.pc = "_setupInputHandlers"
    /\ IF page.Game = "absent"
       THEN StartupStart
       ELSE /\ engine' = [engine EXCEPT !.isInitialized = TRUE]
            /\ page' = SetupInputHandlers(engine, page)
            /\ boot' = [StepDone(boot, "_setupInputHandlers", "game.init") EXCEPT
                          !.initResult = "true"]
    /\ trace' = <<[op |-> "_setupInputHandlers"]>>
    /\ UNCHANGED coreVars
    /\ UNCHANGED <<planets, elapsed, spacecraft, inputManager, assetManager>>

\* startup.js, lines 69-85: the init of the Game settled; the engine is started, or the
\* start-up catches the rejection and returns false.
GameInit ==
    /\ boot.pc = "game.init"
    /\ IF page.Game = "rejects"
       THEN /\ boot' = [boot EXCEPT !.pc = "failed"]
            /\ UNCHANGED <<engine, page>>
       ELSE /\ engine' = EngineStart(engine, page.now)
            /\ page' = [page EXCEPT !.frames = IF engine.isRunning THEN @ ELSE @ + 1,
                                    !.hideTimer = TRUE]
            /\ boot' = [boot EXCEPT !.pc = "done", !.started = TRUE]
    /\ trace' = <<[op |-> "game.init"]>>
    /\ UNCHANGED coreVars
    /\ UNCHANGED <<planets, elapsed, spacecraft, inputManager, assetManager>>

\* The timer of the start-up fires: hideLoadingScreen().
HideLoadingScreen ==
    /\ page # NoObject
    /\ page.hideTimer
    /\ page' = [page EXCEPT !.hideTimer = FALSE, !.loadingScreen = "hidden"]
    /\ trace' = <<[op |-> "hideLoadingScreen"]>>
    /\ UNCHANGED coreVars
    /\ UNCHANGED <<planets, elapsed, engine, spacecraft, inputManager, assetManager, boot>>

\* ------------------------------------------------------------ Engine.js: key events

\* event.key.toLowerCase(), for the keys of the model.
ToLowerCase(key) ==
    CASE key = "W" -> "w"
      [] key = "ArrowUp" -> "arrowup"
      [] key = "ArrowDown" -> "arrowdown"
      [] key = "ArrowLeft" -> "arrowleft"
      [] key = "ArrowRight" -> "arrowright"
      [] key = "Escape" -> "escape"
      [] OTHER -> key

\* The switch of the key listeners of the engine: the control a key stands for.
KeyControl(key) ==
    CASE key \in {"w", "arrowup"} -> "isAccelerating"
      [] key \in {"s", "arrowdown"} -> "isDecelerating"
      [] key \in {"a", "arrowleft"} -> "isTurningLeft"
      [] key \in {"d", "arrowright"} -> "isTurningRight"
      [] key = "q" -> "isRollingLeft"
      [] key = "e" -> "isRollingRight"
      [] key = "r" -> "isPitchingUp"
      [] key = "f" -> "isPitchingDown"
      [] OTHER -> "none"

\* The key listener of the engine on the document, when it was added: the control of
\* the key is switched on the spacecraft, if there is one.
EngineKeyListener(pg, craft, key, active) ==
    IF pg.keyListeners /\ craft # NoObject /\ KeyControl(ToLowerCase(key)) # "none"
    THEN SetControl(craft, KeyControl(ToLowerCase(key)), active)
    ELSE craft

\* _keyDownHandler of the input manager: the event is queued unless the key is down.
KeyDownHandler(im, key) ==
    [im EXCEPT !.keys = @ \cup {key},
               !.keyEvents = IF key \in im.keys THEN @
                             ELSE Append(@, [type |-> "keydown", key |-> key])]

\* _keyUpHandler of the input manager.
KeyUpHandler(im, key) ==
    [im EXCEPT !.keys = @ \ {key},
               !.keyEvents = Append(@, [type |-> "keyup", key |-> key])]

\* A keydown event on the page: the listeners of the document, then of the window.
KeyDown(limit, key) ==
    /\ page # NoObject
    /\ inputManager # NoObject => Len(inputManager.keyEvents) < limit
    /\ spacecraft' = EngineKeyListener(page, spacecraft, key, TRUE)
    /\ inputManager' = IF inputManager = NoObject THEN inputManager
                       ELSE KeyDownHandler(inputManager, ToLowerCase(key))
    /\ trace' = <<[op |-> "keydown", key |-> key]>>
    /\ UNCHANGED coreVars
    /\ UNCHANGED <<planets, elapsed, engine, assetManager, page, boot>>

\* A keyup event on the page.
KeyUp(limit, key) ==
    /\ page # NoObject
    /\ inputManager # NoObject => Len(inputManager.keyEvents) < limit
    /\ spacecraft' = EngineKeyListener(page, spacecraft, key, FALSE)
    /\ inputManager' = IF inputManager = NoObject THEN inputManager
                       ELSE KeyUpHandler(inputManager, ToLowerCase(key))
    /\ trace' = <<[op |-> "keyup", key |-> key]>>
    /\ UNCHANGED coreVars
    /\ UNCHANGED <<planets, elapsed, engine, assetManager, page, boot>>

\* A control method of the spacecraft, called by a user of the spacecraft.
CallControl(flag, active) ==
    /\ spacecraft # NoObject
    /\ spacecraft.flags[flag] # active
    /\ spacecraft' = SetControl(spacecraft, flag, active)
    /\ trace' = <<[op |-> "control", flag |-> flag, active |-> active]>>
    /\ UNCHANGED coreVars
    /\ UNCHANGED <<planets, elapsed, engine, inputManager, assetManager, page, boot>>

\* ------------------------------------------------------------ Engine.js: the game loop

\* Math.sqrt(Math.pow(a.x - b.x, 2) + Math.pow(a.y - b.y, 2) + Math.pow(a.z - b.z, 2))
Distance(a, b) ==
    Only({ Sqrt(Add(Add(Mul(dx, dx), Mul(dy, dy)), Mul(dz, dz))) :
           dx \in {Sub(a.x, b.x)}, dy \in {Sub(a.y, b.y)}, dz \in {Sub(a.z, b.z)} })

\* The event _updateCollisions raises for a planet at a distance: the proximity test
\* first, so that a planet closer than 1.2 radii raises a proximity warning as well as
\* every planet closer than 2 radii.
CollisionEventProximityFirst(distance, radius) ==
    IF Less(distance, Mul(radius, Num(2))) THEN "proximity"
    ELSE IF Less(distance, Mul(radius, Lit(12, -1))) THEN "collision"
    ELSE "none"

\* The event _updateCollisions raises for a planet at a distance.
CollisionEvent(distance, radius) ==
    IF Less(distance, Mul(radius, Lit(12, -1))) THEN "collision"
    ELSE IF Less(distance, Mul(radius, Num(2))) THEN "proximity"
    ELSE "none"

\* _handleCollision / _handleProximityWarning for planet k: the message, then the
\* listeners of the event.
HandleEvent(eng, event, k, distance) ==
    <<[op |-> "event", event |-> event, planet |-> k, distance |-> distance]>>
    \o SelectSeq(Trigger(eng, event), LAMBDA c : c.op = "listener")

\* The planets from the k-th on, as _updateCollisions checks them.
RECURSIVE CheckPlanets(_, _, _, _)
CheckPlanets(eng, craft, bodies, k) ==
    IF k > Len(bodies) THEN <<>>
    ELSE Only({ (IF CollisionEvent(distance, bodies[k].radius) = "none" THEN <<>>
                 ELSE HandleEvent(eng, CollisionEvent(distance, bodies[k].radius), k, distance))
                \o CheckPlanets(eng, craft, bodies, k + 1) :
                distance \in {Distance(craft.position, bodies[k].position)} })

\* _updateCollisions(): what it raises, in order; nothing without a spacecraft or a
\* solar system.
UpdateCollisions(eng, craft, bodies) ==
    <<[op |-> "_updateCollisions"]>>
    \o (IF craft = NoObject \/ eng.solarSystem = "null" THEN <<>>
        ELSE CheckPlanets(eng, craft, bodies, 1))

\* gameLoop with the updates made while paused too.
UpdatesWhilePaused(eng) == eng.isRunning

\* Whether a frame calls update and _updateCollisions: when running and not paused.
Updates(eng) == eng.isRunning /\ ~eng.isPaused

\* An animation frame runs gameLoop, `ms` milliseconds after the previous frame:
\* nothing when the engine is not running; else update and _updateCollisions unless
\* paused, then render, then the request of the next frame.
GameLoop(limit, ms) ==
    /\ page # NoObject
    /\ page.frames > 0
    /\ page.frameCount < limit
    /\ \E timestamp \in {page.now + ms} :
       \E deltaTime \in {Div(Num(timestamp - engine.lastTime), Num(1000))} :
       \E updates \in {Updates(engine)} :
          /\ page' = [page EXCEPT !.now = timestamp, !.frameCount = @ + 1,
                                  !.frames = IF engine.isRunning THEN @ ELSE @ - 1]
          /\ engine' = IF engine.isRunning THEN [engine EXCEPT !.lastTime = timestamp]
                       ELSE engine
          /\ spacecraft' = IF updates /\ spacecraft # NoObject
                           THEN SpacecraftUpdate(spacecraft, deltaTime) ELSE spacecraft
          /\ elapsed' = IF updates /\ engine.solarSystem # "null"
                        THEN Add(elapsed, deltaTime) ELSE elapsed
          /\ planets' = IF updates /\ engine.solarSystem # "null"
                        THEN [k \in DOMAIN planets |->
                                 PlanetUpdate(planets[k], deltaTime, Add(elapsed, deltaTime))]
                        ELSE planets
          /\ trace' = <<[op |-> "gameLoop"]>>
                      \o (IF ~engine.isRunning THEN <<Returns("gameLoop")>>
                          ELSE (IF updates
                                THEN <<[op |-> "update"]>>
                                     \o UpdateCollisions(engine, spacecraft', planets')
                                ELSE <<>>)
                               \o <<[op |-> "render"], [op |-> "requestAnimationFrame"]>>)
    /\ UNCHANGED coreVars
    /\ UNCHANGED <<inputManager, assetManager, boot>>

\* togglePause(), called by a user of the engine: isPaused is inverted and the
\* listeners of 'pause' are called.
TogglePause ==
    /\ engine # NoObject
    /\ engine' = [engine EXCEPT !.isPaused = ~@]
    /\ trace' = <<[op |-> "togglePause"]>>
                \o SelectSeq(Trigger(engine, "pause"), LAMBDA c : c.op = "listener")
                \o <<Returns("togglePause")>>
    /\ UNCHANGED coreVars
    /\ UNCHANGED <<planets, elapsed, spacecraft, inputManager, assetManager, page, boot>>

\* ------------------------------------------------------------ Engine.js: shutdown

\* The first statement of shutdown that throws a TypeError, or "none": the read of
\* sceneManager.onWindowResize without a scene manager, removeAllBindings on an input
\* manager that has no such method, stopAll on the substitute audio manager.
ShutdownThrowsAt(eng) ==
    IF eng.sceneManager = "null" THEN "removeEventListener"
    ELSE IF eng.inputManager # "null" /\ ~HasMethod(eng.inputManager, "removeAllBindings")
    THEN "removeAllBindings"
    ELSE IF eng.audioManager = "fallback" THEN "stopAll"
    ELSE "none"

\* shutdown(), called by a user of the engine: isRunning is cleared; then the
\* statements up to the first one that throws; the 'shutdown' listeners are called and
\* window.engine is cleared only when none throws.
Shutdown ==
    /\ engine # NoObject
    /\ engine' = [engine EXCEPT !.isRunning = FALSE]
    /\ page' = IF ShutdownThrowsAt(engine) = "none" THEN [page EXCEPT !.engine = "null"]
               ELSE page
    /\ trace' = <<[op |-> "shutdown"]>>
                \o (IF ShutdownThrowsAt(engine) = "none"
                    THEN Trigger(engine, "shutdown")
                    ELSE <<[op |-> "TypeError", at |-> ShutdownThrowsAt(engine)],
                           Throws("shutdown")>>)
    /\ UNCHANGED coreVars
    /\ UNCHANGED <<planets, elapsed, spacecraft, inputManager, assetManager, boot>>

\* ------------------------------------------------------------ the application

\* Every global of a complete page.
AllClasses ==
    RequiredDependencies \cup EngineJsClasses
    \cup {"Spacecraft", "SolarSystem", "THREE.GLTFLoader"}

\* A page before its start-up, with the utility modules loaded.
InitApplication(pages) ==
    /\ CoreLoaded(<<>>)
    /\ planets = <<>>
    /\ elapsed = Zero
    /\ engine = NoObject
    /\ spacecraft = NoObject
    /\ inputManager = NoObject
    /\ assetManager = NoObject
    /\ page \in pages
    /\ trace = <<>>
    /\ boot = BootNew

\* A planet of radius `radius` on an orbit that passes the place of the spacecraft.
NearPlanet(radius) ==
    Planet(PlanetConfig(radius, Num(85), Undefined, Undefined, Undefined, Undefined,
                        Undefined, Undefined, Undefined, Undefined, Undefined, Lit(785, -3)))

\* The planets a solar system is created with.
SolarSystems ==
    {<<NearPlanet(Num(3)), NearPlanet(Num(2)), NearPlanet(Num(1))>>,
     <<NearPlanet(Lit(25, -1)), NearPlanet(Lit(15, -1))>>}

\* The steps of the start-up and of init.
NextBoot ==
    \/ Startup
    \/ InitThreeJs
    \/ InitCoreManagers
    \/ \E model \in {"null", "gltf"} : LoadAssets(model)
    \/ \E bodies \in SolarSystems : CreateGameWorld(bodies)
    \/ FinishInit
    \/ GameInit
    \/ HideLoadingScreen

\* ------------------------------------------------------------ the start-up

StartupPages ==
    { Page(classes, threeLoader, audioManager, game) :
        classes \in {AllClasses, AllClasses \ {"Spacecraft", "SolarSystem"},
                     AllClasses \ {"SceneManager"}},
        threeLoader \in {"absent", "true", "false", "rejects"},
        audioManager \in {"absent", "ok", "rejects"},
        game \in {"absent", "ok", "rejects"} }

InitStartup == InitApplication(StartupPages)

NextStartup ==
    \/ NextBoot
    \/ GameLoop(MaxFrames, 16)
    \/ Shutdown

SpecStartup == InitStartup /\ [][NextStartup]_vars

\* ------------------------------------------------------------ the running engine

LoopPages ==
    { Page(classes, "true", audioManager, "absent") :
        classes \in {AllClasses, AllClasses \ {"Spacecraft"}},
        audioManager \in {"absent", "ok"} }

InitLoop == InitApplication(LoopPages)

NextLoop ==
    \/ Startup
    \/ InitThreeJs
    \/ InitCoreManagers
    \/ LoadAssets("null")
    \/ \E bodies \in SolarSystems : CreateGameWorld(bodies)
    \/ FinishInit
    \/ \E ms \in {16, 500} : GameLoop(MaxFrames, ms)
    \/ TogglePause
    \/ Shutdown
    \/ \E event \in {"collision", "shutdown"} : CallOn(1, event, Listener(1, FALSE))
    \/ \E active \in BOOLEAN : CallControl("isAccelerating", active)

SpecLoop == InitLoop /\ [][NextLoop]_vars

\* ------------------------------------------------------------ the keyboard

KeyPages ==
    { Page(classes, "true", "absent", "absent") :
        classes \in {AllClasses, AllClasses \ {"Spacecraft"}} }

\* The keys pressed: the keys of the controls, in both cases where a letter has them,
\* the pause key and a key without a meaning.
KeyNames ==
    {"w", "W", "s", "a", "d", "q", "e", "r", "f",
     "ArrowUp", "ArrowDown", "ArrowLeft", "ArrowRight", "p", "x"}

InitKeys == InitApplication(KeyPages)

NextKeys ==
    \/ Startup
    \/ InitThreeJs
    \/ InitCoreManagers
    \/ LoadAssets("gltf")
    \/ CreateGameWorld(<<>>)
    \/ FinishInit
    \/ \E key \in KeyNames : KeyDown(MaxKeyEvents, key)
    \/ \E key \in KeyNames : KeyUp(MaxKeyEvents, key)

SpecKeys == InitKeys /\ [][NextKeys]_vars

\* ------------------------------------------------------------ the asset manager on its own

\* The lists loaded: none, one item, two items.
AssetLists ==
    {<<>>, <<Item("earth", "earth.jpg")>>,
     <<Item("earth", "earth.jpg"), Item("star", "star.png")>>}

InitAssets ==
    /\ CoreLoaded(<<>>)
    /\ planets = <<>>
    /\ elapsed = Zero
    /\ engine = NoObject
    /\ spacecraft = NoObject
    /\ inputManager = NoObject
    /\ assetManager \in {AssetManager("GLTFLoader"), AssetManager("mock")}
    /\ page = NoObject
    /\ trace = <<>>
    /\ boot = "none"

NextAssets ==
    \/ \E kind \in {"textures", "models"}, items \in AssetLists :
          CallLoad(MaxBatches, kind, items)
    \/ \E b \in 1..MaxBatches, k \in 1..2, outcome \in {"load", "error"} :
          LoaderReports(b, k, outcome)

SpecAssets == InitAssets /\ [][NextAssets]_vars

\* ------------------------------------------------------------ Engine.js: InputManager queue

\* _blurHandler of the input manager: no key is down any more; the queue is kept.
BlurHandler(im) == [im EXCEPT !.keys = {}]

\* The window loses the focus.
Blur ==
    /\ inputManager # NoObject
    /\ inputManager.keys # {}
    /\ inputManager' = BlurHandler(inputManager)
    /\ trace' = <<[op |-> "blur"]>>
    /\ UNCHANGED coreVars
    /\ UNCHANGED <<planets, elapsed, engine, spacecraft, assetManager, page, boot>>

\* pollKeyEvents that empties the array it is about to return.
PollKeyEventsAliased(im) ==
    [events |-> <<>>, manager |-> [im EXCEPT !.keyEvents = <<>>]]

\* pollKeyEvents(): a copy of the queue is returned and the queue replaced by an empty
\* one.
PollKeyEvents(im) ==
    [events |-> im.keyEvents, manager |-> [im EXCEPT !.keyEvents = <<>>]]

\* inputManager.pollKeyEvents(), called by a user of the input manager.
CallPollKeyEvents ==
    /\ inputManager # NoObject
    /\ inputManager' = PollKeyEvents(inputManager).manager
    /\ trace' = <<[op |-> "pollKeyEvents", events |-> PollKeyEvents(inputManager).events]>>
    /\ UNCHANGED coreVars
    /\ UNCHANGED <<planets, elapsed, engine, spacecraft, assetManager, page, boot>>

\* ------------------------------------------------------------ the input manager on its own

\* The keys pressed: a letter in both cases, another letter and a named key.
PolledKeys == {"w", "W", "a", "ArrowUp"}

\* A page on which an input manager was constructed, without an engine.
InitInput ==
    /\ CoreLoaded(<<>>)
    /\ planets = <<>>
    /\ elapsed = Zero
    /\ engine = NoObject
    /\ spacecraft = NoObject
    /\ inputManager = InputManagerNew
    /\ assetManager = NoObject
    /\ page = Page(EngineJsClasses, "absent", "absent", "absent")
    /\ trace = <<>>
    /\ boot = BootNew

NextInput ==
    \/ \E key \in PolledKeys : KeyDown(MaxKeyEvents, key)
    \/ \E key \in PolledKeys : KeyUp(MaxKeyEvents, key)
    \/ Blur
    \/ CallPollKeyEvents

SpecInput == InitInput /\ [][NextInput]_vars

\* ------------------------------------------------------------ the event system on its own

EventNames == {"collision", "pause"}

\* Three callbacks; the second one throws.
EventListeners == {Listener(1, FALSE), Listener(2, TRUE), Listener(3, FALSE)}

InitEvents ==
    /\ CoreLoaded(<<>>)
    /\ planets = <<>>
    /\ elapsed = Zero
    /\ engine = EngineNew
    /\ spacecraft = NoObject
    /\ inputManager = NoObject
    /\ assetManager = NoObject
    /\ page = NoObject
    /\ trace = <<>>
    /\ boot = "none"

NextEvents ==
    \/ \E event \in EventNames, callback \in EventListeners :
          CallOn(MaxListeners, event, callback)
    \/ \E event \in EventNames : CallTrigger(event)

SpecEvents == InitEvents /\ [][NextEvents]_vars

\* ------------------------------------------------------------ claims

ZeroVector == Vec(Zero, Zero, Zero)

\* The last call returned the vector heap[ret.ref].
ReturnedVector(fn) == ret.fn = fn /\ ret.status = "returned"

\* C1: whenever calculateForce or calculateAcceleration is called with pos1 equal to
\* pos2 component by component (positions are triples of finite numbers), whatever the
\* masses (NaN and Infinity included), the vector returned is exactly {x: 0, y: 0, z: 0}.
C1_ZeroAtCoincidence ==
    (ReturnedVector("calculateForce") \/ ReturnedVector("calculateAcceleration"))
        /\ heap[ret.refs[1]] = heap[ret.refs[2]]
    => heap[ret.ref] = ZeroVector

\* C1 witness: calculateForce returned for coinciding positions away from the origin
\* and an infinite mass.
C1_Witness ==
    /\ ReturnedVector("calculateForce")
    /\ heap[1] = heap[2]
    /\ heap[1].x = Lit(3844, 5)
    /\ ret.nums[1] = PosInf

\* Rounding tolerance of a comparison of directions: 0.01.
Tolerance == Lit(1, -2)

Near(a, b) == LessEq(AbsNum(Sub(a, b)), Tolerance)

Largest(a, b) == IF Less(a, b) THEN b ELSE a

VecFinite(v) == IsFinite(v.x) /\ IsFinite(v.y) /\ IsFinite(v.z)

\* The largest component of a finite vector, in magnitude.
MaxAbs(v) == Largest(Largest(AbsNum(v.x), AbsNum(v.y)), AbsNum(v.z))

Scaled(v) == Vec(Div(v.x, MaxAbs(v)), Div(v.y, MaxAbs(v)), Div(v.z, MaxAbs(v)))

Difference(p, q) == Vec(Sub(p.x, q.x), Sub(p.y, q.y), Sub(p.z, q.z))

\* v is a positive scalar multiple of d, up to rounding: v is finite and not zero, no
\* component of v has the sign opposite to d's, and v and d scaled to largest
\* component 1 agree within the tolerance.
PositiveMultiple(v, d) ==
    /\ VecFinite(v) /\ VecFinite(d)
    /\ v # ZeroVector /\ d # ZeroVector
    /\ Sign(v.x) \in {0, Sign(d.x)} /\ Sign(v.y) \in {0, Sign(d.y)} /\ Sign(v.z) \in {0, Sign(d.z)}
    /\ Near(Scaled(v).x, Scaled(d).x)
    /\ Near(Scaled(v).y, Scaled(d).y)
    /\ Near(Scaled(v).z, Scaled(d).z)

\* C2 as stated: for all pos1 different from pos2 (and any masses), the vector returned
\* by calculateForce is a positive scalar multiple of pos2 - pos1.
C2_Original ==
    ReturnedVector("calculateForce") /\ heap[ret.refs[1]] # heap[ret.refs[2]]
    => PositiveMultiple(heap[ret.ref], Difference(heap[ret.refs[2]], heap[ret.refs[1]]))

\* C2 amended: for all pos1 different from pos2 and masses with m1 * m2 > 0, the vector
\* returned by calculateForce, when it is finite and not the zero vector (no overflow or
\* underflow of r^2, of F or of the components), is a positive scalar multiple of
\* pos2 - pos1 up to rounding.
C2_ForceTowardsBody2 ==
    /\ ReturnedVector("calculateForce")
    /\ heap[ret.refs[1]] # heap[ret.refs[2]]
    /\ ~IsNaN(ret.nums[1]) /\ ~IsNaN(ret.nums[2])
    /\ Sign(ret.nums[1]) * Sign(ret.nums[2]) > 0
    /\ VecFinite(heap[ret.ref])
    /\ heap[ret.ref] # ZeroVector
    => PositiveMultiple(heap[ret.ref], Difference(heap[ret.refs[2]], heap[ret.refs[1]]))

\* C2 witness: the Earth and Moon masses, positions differing in all three coordinates,
\* and a finite force that is not zero.
C2_Witness ==
    /\ ReturnedVector("calculateForce")
    /\ ret.nums = <<Lit(5972, 21), Lit(7342, 19)>>
    /\ heap[1] = Vec(Zero, Zero, Zero)
    /\ heap[2] = Vec(Lit(3844, 5), Num(3), Num(-1))
    /\ VecFinite(heap[ret.ref])
    /\ Sign(heap[ret.ref].x) = 1 /\ Sign(heap[ret.ref].y) = 1 /\ Sign(heap[ret.ref].z) = -1

\* The eccentricity the solver uses for the elements record el.
EccentricityOf(el) == IF el.eccentricity = Undefined THEN Zero ELSE el.eccentricity

\* C3: every getOrbitalPosition call that returns has seeded E (with M) and then applied
\* E := M + e * sin(E) exactly 6 times, the return following the sixth update directly and
\* using its E: no pass is skipped and none is added, whatever the inputs.
C3_SixIterations ==
    \A k \in 1..Len(log) :
        log[k].ev = "return"
        => /\ k >= 8
           /\ log[k - 7].ev = "position"
           /\ \A j \in 1..6 :
                /\ log[k - 7 + j].ev = "iterate"
                /\ log[k - 7 + j].E =
                       Add(log[k - 7].E,
                           Mul(EccentricityOf(heap[log[k].elements]), Sin(log[k - 8 + j].E)))
           /\ log[k].E = log[k - 1].E

\* C3 witness: a call with eccentricity 0.5 returned after six updates, the first of
\* which had not converged.
C3_Witness ==
    /\ ReturnedVector("getOrbitalPosition")
    /\ heap[1] = KeplerBase
    /\ Len(log) = 8
    /\ log[2].E # log[1].E
    /\ log[3].E # log[2].E
    /\ log[8].ev = "return"

\* The position samples taken by the current top-level call.
PositionSamples == SelectSeq(log, LAMBDA ev : ev.ev = "position")

\* C6: getOrbitalVelocity(elements, time) samples getOrbitalPosition exactly twice, at
\* time and at time + 0.001, and returns the difference of the two positions divided by
\* 0.001, component by component.
C6_ForwardDifference ==
    ReturnedVector("getOrbitalVelocity")
    => LET el == heap[ret.refs[1]]
           t  == ret.nums[1]
           dt == Lit(1, -3)
       IN  /\ Len(PositionSamples) = 2
           /\ PositionSamples[1].time = t
           /\ PositionSamples[2].time = Add(t, dt)
           /\ \E p1, p2 \in hist :
                /\ p1.fn = "getOrbitalPosition" /\ p1.elements = el /\ p1.time = t
                /\ p2.fn = "getOrbitalPosition" /\ p2.elements = el /\ p2.time = Add(t, dt)
                /\ heap[ret.ref] = Vec(Div(Sub(p2.result.x, p1.result.x), dt),
                                       Div(Sub(p2.result.y, p1.result.y), dt),
                                       Div(Sub(p2.result.z, p1.result.z), dt))

\* C6 witness: a velocity was returned for the base orbit at the epoch, and none of its
\* components is zero.
C6_Witness ==
    /\ ReturnedVector("getOrbitalVelocity")
    /\ heap[1] = KeplerBase
    /\ ret.nums[1] = Zero
    /\ VecFinite(heap[ret.ref])
    /\ heap[ret.ref].x # Zero /\ heap[ret.ref].y # Zero /\ heap[ret.ref].z # Zero

\* The defaults the specification gives for absent fields.
DocumentedDefaults == Elements(Num(10), Zero, Zero, Zero, Zero, Zero, Num(1))

\* The elements record el with every absent field set to its documented default.
Filled(el) ==
    [f \in DOMAIN el |->
        IF f \in ElementFields /\ el[f] = Undefined THEN DocumentedDefaults[f] ELSE el[f]]

\* C9: for every subset of absent fields, getOrbitalPosition returns the position it
\* computes when those fields are set to a = 10, e = 0, i = 0, Omega = 0, omega = 0,
\* M0 = 0, T = 1.
C9_Defaults ==
    ReturnedVector("getOrbitalPosition")
    => heap[ret.ref] = PositionOf(Filled(heap[ret.refs[1]]), ret.nums[1])

\* C9 witness: a position was returned for a record with only inclination and
\* argumentOfPeriapsis present, a quarter of the default period after the epoch.
C9_Witness ==
    /\ ReturnedVector("getOrbitalPosition")
    /\ heap[1] = Without(KeplerBase, ElementFields \ {"inclination", "argumentOfPeriapsis"})
    /\ ret.nums[1] = Lit(25, -2)
    /\ heap[ret.ref] # ZeroVector

\* Tolerance of a position on an orbit, as a fraction of the semi-major axis: 0.02.
OrbitTolerance == Lit(2, -2)

Within(u, v, a) == LessEq(AbsNum(Sub(u, v)), Mul(OrbitTolerance, a))

Norm(v) == Sqrt(Add(Add(Mul(v.x, v.x), Mul(v.y, v.y)), Mul(v.z, v.z)))

\* A circular orbit of the documented domain: e = 0, a > 0, T > 0.
Circular(el) ==
    /\ el.eccentricity = Zero
    /\ IsFinite(el.semiMajorAxis) /\ Sign(el.semiMajorAxis) = 1
    /\ IsFinite(el.orbitalPeriod) /\ Sign(el.orbitalPeriod) = 1

\* C10: for eccentricity 0 the position returned lies at distance semiMajorAxis from the
\* origin, and it is the position one orbitalPeriod later, both within the tolerance.
C10_CircularOrbit ==
    ReturnedVector("getOrbitalPosition") /\ Circular(Filled(heap[ret.refs[1]]))
    => LET el == Filled(heap[ret.refs[1]])
           p  == heap[ret.ref]
           q  == PositionOf(el, Add(ret.nums[1], el.orbitalPeriod))
       IN  /\ Within(Norm(p), el.semiMajorAxis, el.semiMajorAxis)
           /\ Within(p.x, q.x, el.semiMajorAxis)
           /\ Within(p.y, q.y, el.semiMajorAxis)
           /\ Within(p.z, q.z, el.semiMajorAxis)

\* C10 witness: a position on the inclined, rotated circular orbit of period 4 was
\* returned for time 1.5.
C10_Witness ==
    /\ ReturnedVector("getOrbitalPosition")
    /\ heap[1] = Without(KeplerBase, {"eccentricity"})
    /\ ret.nums[1] = Lit(15, -1)
    /\ heap[ret.ref].z # Zero

\* C4: any two getOrbitalPosition calls with the same elements and the same time returned
\* the same position, whatever calls of the core were made before or between them.
C4_PositionDeterministic ==
    \A h1, h2 \in hist :
        /\ h1.fn = "getOrbitalPosition" /\ h2.fn = "getOrbitalPosition"
        /\ h1.elements = h2.elements /\ h1.time = h2.time
        => h1.result = h2.result

\* C4 witness: the first and the third call were getOrbitalPosition with the same inputs,
\* and the second call was getOrbitalVelocity.
C4_Witness ==
    \E h1, h2, h3 \in hist :
        /\ h1.call = 1 /\ h1.fn = "getOrbitalPosition"
        /\ h2.call = 2 /\ h2.fn = "getOrbitalVelocity"
        /\ h3.call = 3 /\ h3.fn = "getOrbitalPosition"
        /\ h1.elements = KeplerBase /\ h3.elements = KeplerBase /\ h1.time = h3.time
        /\ VecFinite(h3.result) /\ h3.result # ZeroVector

\* C5: any two getOrbitalVelocity calls with the same elements and the same time returned
\* the same velocity, whatever mu was passed or omitted.
C5_VelocityIgnoresMu ==
    \A h1, h2 \in hist :
        /\ h1.fn = "getOrbitalVelocity" /\ h2.fn = "getOrbitalVelocity"
        /\ h1.elements = h2.elements /\ h1.time = h2.time
        => h1.result = h2.result

\* C5 witness: a velocity was returned with mu omitted and another with mu = 5, for the
\* same orbit and time, and it is not the zero vector.
C5_Witness ==
    \E h1, h2 \in hist :
        /\ h1.fn = "getOrbitalVelocity" /\ h1.mu = Undefined
        /\ h2.fn = "getOrbitalVelocity" /\ h2.mu = Num(5)
        /\ h1.elements = h2.elements /\ h1.time = h2.time
        /\ VecFinite(h1.result) /\ h1.result # ZeroVector

\* C7: a call whose arguments are all present (numbers and objects of numbers), even
\* outside the documented domain, returns a value: it never throws.
C7_NeverThrows ==
    ret.status # "none" /\ (\A k \in 1..Len(ret.refs) : ret.refs[k] # NoRef)
    => /\ ret.status = "returned"
       /\ IF ret.fn \in {"orbitalVelocity", "calculatePeriod"}
          THEN ret.num # Undefined
          ELSE ret.ref \in DOMAIN heap

\* C7 witness: getOrbitalPosition returned a vector of NaN for the orbit of eccentricity 1.5.
C7_Witness ==
    /\ ReturnedVector("getOrbitalPosition")
    /\ heap[ret.refs[1]].eccentricity = Lit(15, -1)
    /\ IsNaN(heap[ret.ref].x)

\* A step that changes no existing object and no field of Gravity, and that hands out
\* (to the caller of the core or to getOrbitalVelocity) only an object created by it.
NoMutationFreshResult ==
    /\ \A r \in DOMAIN heap : r \in DOMAIN heap' /\ heap'[r] = heap[r]
    /\ gravity' = gravity
    /\ (ret' # ret /\ ret'.ref # NoRef => ret'.ref \notin DOMAIN heap)
    /\ (stack' # <<>> /\ stack # <<>> /\ stack'[1].pos1 # stack[1].pos1
            => stack'[1].pos1 \notin DOMAIN heap)
    /\ (stack' # <<>> /\ stack # <<>> /\ stack'[1].pos2 # stack[1].pos2
            => stack'[1].pos2 \notin DOMAIN heap)

\* C8: no step of a call changes an object that exists (the arguments among them) or a
\* field of Gravity, and a vector that is returned is an object that did not exist
\* before: neither an argument nor a vector returned earlier.
C8_NoMutationFreshResult == [][NoMutationFreshResult]_vars

\* C8 witness: calculateForce returned for pos1 and pos2 being the same object, after a
\* getOrbitalVelocity call had returned.
C8_Witness ==
    /\ ReturnedVector("calculateForce")
    /\ ret.refs = <<1, 1>>
    /\ \E h \in hist : h.fn = "getOrbitalVelocity"
    /\ heap[1] = CoreObjects[1]

\* An orbit at its reference direction: e = 0, M0 = 0 and the three angles 0 (given or
\* defaulted), with a finite semi-major axis and a finite period that is not 0.
Unrotated(el) ==
    /\ el.eccentricity = Zero /\ el.meanAnomalyAtEpoch = Zero
    /\ el.inclination = Zero /\ el.longitudeOfAscendingNode = Zero
    /\ el.argumentOfPeriapsis = Zero
    /\ IsFinite(el.semiMajorAxis)
    /\ IsFinite(el.orbitalPeriod) /\ ~IsZero(el.orbitalPeriod)

\* C11: with e = 0, M0 = 0 and inclination, longitudeOfAscendingNode and
\* argumentOfPeriapsis 0, getOrbitalPosition at time 0 returns exactly
\* {x: semiMajorAxis, y: 0, z: 0}, whatever the semi-major axis and the period.
C11_EpochPosition ==
    /\ ReturnedVector("getOrbitalPosition")
    /\ Unrotated(Filled(heap[ret.refs[1]]))
    /\ ret.nums[1] = Zero
    => heap[ret.ref] = Vec(Filled(heap[ret.refs[1]]).semiMajorAxis, Zero, Zero)

\* C11 witness: the position {100, 0, 0} was returned at time 0 for
\* {semiMajorAxis: 100, eccentricity: 0, orbitalPeriod: 365}.
C11_Witness ==
    /\ ReturnedVector("getOrbitalPosition")
    /\ heap[1] = Elements(Num(100), Zero, Undefined, Undefined, Undefined, Undefined, Num(365))
    /\ ret.nums[1] = Zero
    /\ heap[ret.ref] = Vec(Num(100), Zero, Zero)

\* The orbital elements a planet owns.
ElementsOf(p) ==
    Elements(p.semiMajorAxis, p.eccentricity, p.inclination, p.longitudeOfAscendingNode,
             p.argumentOfPeriapsis, p.meanAnomalyAtEpoch, p.orbitalPeriod)

\* C12 as stated: after every tick, each planet is at the position that
\* getOrbitalPosition returns for the planet's own elements and the accumulated
\* simulation time (within the orbit tolerance).
C12_Original ==
    trace # <<>>
    => \A k \in DOMAIN planets :
           LET p == planets[k]
               q == PositionOf(ElementsOf(p), elapsed)
           IN  /\ Within(p.position.x, q.x, p.semiMajorAxis)
               /\ Within(p.position.y, q.y, p.semiMajorAxis)
               /\ Within(p.position.z, q.z, p.semiMajorAxis)

\* The listener calls of the last operation, in order.
ListenerCalls == SelectSeq(trace, LAMBDA c : c.op = "listener")

\* C20: a trigger(event) calls the listeners registered for the event with on(), each
\* once per registration and in registration order, also after a listener that throws,
\* and then returns: it does not throw.
C20_TriggerCallsAll ==
    trace # <<>> /\ trace[1].op = "trigger"
    => LET ls == ListenersOf(engine, trace[1].event)
       IN  /\ Len(ListenerCalls) = Len(ls)
           /\ \A k \in 1..Len(ls) : ListenerCalls[k] = ListenerCall(trace[1].event, ls[k])
           /\ trace[Len(trace)] = Returns("trigger")

\* C20 witness: a trigger called listener 1, then listener 2, which threw, then
\* listener 3, and returned.
C20_Witness ==
    /\ trace # <<>> /\ trace[1].op = "trigger"
    /\ Len(ListenerCalls) = 3
    /\ ListenerCalls[1].id = 1 /\ ListenerCalls[2].id = 2 /\ ListenerCalls[2].threw
    /\ ListenerCalls[3].id = 3
    /\ trace[Len(trace)] = Returns("trigger")

\* s is an initial part of t.
Prefix(s, t) == Len(s) <= Len(t) /\ \A k \in 1..Len(s) : s[k] = t[k]

\* The first n steps of init.
FirstSteps(n) == SubSeq(InitSteps, 1, n)

\* C18: the steps of init run in the order Three.js, core managers, assets, game world,
\* input handlers; isInitialized is true only when all five ran and init returned true;
\* and when ThreeLoader is unavailable or a step threw (ThreeLoader.init or the init of
\* the audio manager rejected), init returned false, that step is the last one run and
\* isInitialized is false.
C18_InitOrder ==
    /\ Prefix(boot.steps, InitSteps)
    /\ engine # NoObject /\ engine.isInitialized
       => boot.steps = InitSteps /\ boot.initResult = "true"
    /\ boot.steps # <<>> /\ page.ThreeLoader \in {"absent", "rejects"}
       => boot.steps = FirstSteps(1) /\ boot.initResult = "false" /\ ~engine.isInitialized
    /\ Len(boot.steps) >= 2 /\ page.AudioManager = "rejects"
       => boot.steps = FirstSteps(2) /\ boot.initResult = "false" /\ ~engine.isInitialized

\* C18 witness: init failed in its second step, after a ThreeLoader that returned false.
C18_Witness ==
    /\ boot.steps = FirstSteps(2)
    /\ boot.initResult = "false"
    /\ page.ThreeLoader = "false"
    /\ page.AudioManager = "rejects"

\* C19: the start-up has started the engine only if init returned true; on a page
\* without a required dependency there is no Engine object and window.engine is unset;
\* and when init returned false or threw, the engine is not running, no frame is
\* requested and the loading screen is shown with no timer to hide it.
C19_StartAfterInit ==
    /\ boot.started => boot.initResult = "true"
    /\ ~(RequiredDependencies \subseteq page.classes)
       => engine = NoObject /\ page.engine = "undefined"
    /\ boot.initResult \in {"false", "threw"}
       => /\ ~boot.started /\ ~engine.isRunning /\ page.frames = 0 /\ page.frameCount = 0
          /\ page.loadingScreen = "shown" /\ ~page.hideTimer

\* C19 witness: the engine was started after init returned true and the init of the
\* Game resolved; the timer of the loading screen is set.
C19_Witness ==
    /\ boot.started
    /\ boot.initResult = "true"
    /\ page.Game = "ok"
    /\ engine.isRunning
    /\ page.hideTimer

\* The control flag the documentation gives a key: W / up accelerate, S / down
\* decelerate, A / left and D / right turn, Q and E roll.
DocumentedControl(key) ==
    CASE key \in {"w", "W", "ArrowUp"} -> "isAccelerating"
      [] key \in {"s", "ArrowDown"} -> "isDecelerating"
      [] key \in {"a", "ArrowLeft"} -> "isTurningLeft"
      [] key \in {"d", "ArrowRight"} -> "isTurningRight"
      [] key = "q" -> "isRollingLeft"
      [] key = "e" -> "isRollingRight"
      [] OTHER -> "none"

\* C13: on an initialized engine with an input manager of the class InputManager and a
\* spacecraft, after a keydown of W, S, A, D, an arrow key, Q or E the control flag of
\* the key is true, and after the keyup it is false.
C13_Original ==
    /\ trace # <<>> /\ trace[1].op \in {"keydown", "keyup"}
    /\ engine # NoObject /\ engine.isInitialized /\ engine.inputManager = "InputManager"
    /\ spacecraft # NoObject
    /\ DocumentedControl(trace[1].key) # "none"
    => spacecraft.flags[DocumentedControl(trace[1].key)] = (trace[1].op = "keydown")

\* The calls of the methods of the engine that a frame made, in order.
FrameCalls ==
    [k \in 1..Len(SelectSeq(trace, LAMBDA c : c.op \in {"update", "_updateCollisions",
                                                       "render", "requestAnimationFrame"})) |->
        SelectSeq(trace, LAMBDA c : c.op \in {"update", "_updateCollisions",
                                              "render", "requestAnimationFrame"})[k].op]

\* C14: a frame handled while the engine is running calls render and requests one next
\* frame when paused, and calls update, _updateCollisions, render in this order and
\* requests one next frame when not paused; one requested frame is pending after it.
C14_FrameCalls ==
    trace # <<>> /\ trace[1].op = "gameLoop" /\ engine.isRunning
    => /\ FrameCalls = IF engine.isPaused THEN <<"render", "requestAnimationFrame">>
                       ELSE <<"update", "_updateCollisions", "render",
                              "requestAnimationFrame">>
       /\ page.frames = 1

\* C14 witness: a frame of a paused, running engine rendered and requested the next one.
C14_Witness ==
    /\ trace # <<>> /\ trace[1].op = "gameLoop"
    /\ engine.isRunning /\ engine.isPaused
    /\ FrameCalls = <<"render", "requestAnimationFrame">>

\* The number of times a frame raised `event` for planet k.
Raised(event, k) ==
    Len(SelectSeq(trace, LAMBDA c : c.op = "event" /\ c.event = event /\ c.planet = k))

\* C16: after an unpaused frame of an engine with a spacecraft and a solar system, for
\* each planet at distance d and of radius r: 'collision' was raised once if
\* d < 1.2 r and else not at all, 'proximity' once if 1.2 r <= d < 2 r and else not at
\* all.
C16_CollisionEvents ==
    /\ trace # <<>> /\ trace[1].op = "gameLoop"
    /\ engine.isRunning /\ ~engine.isPaused
    /\ spacecraft # NoObject /\ engine.solarSystem # "null"
    => \A k \in DOMAIN planets :
          \E d \in {Distance(spacecraft.position, planets[k].position)} :
          \E near \in {Mul(planets[k].radius, Lit(12, -1))} :
          \E far \in {Mul(planets[k].radius, Num(2))} :
             /\ Raised("collision", k) = IF Less(d, near) THEN 1 ELSE 0
             /\ Raised("proximity", k) = IF LessEq(near, d) /\ Less(d, far) THEN 1 ELSE 0

\* C16 witness: one unpaused frame raised a collision for a planet, a proximity warning
\* for a second one and nothing for a third one.
C16_Witness ==
    /\ trace # <<>> /\ trace[1].op = "gameLoop"
    /\ \E k \in DOMAIN planets : Raised("collision", k) = 1 /\ Raised("proximity", k) = 0
    /\ \E k \in DOMAIN planets : Raised("proximity", k) = 1 /\ Raised("collision", k) = 0
    /\ \E k \in DOMAIN planets : Raised("proximity", k) = 0 /\ Raised("collision", k) = 0

\* C17: after a shutdown() of an initialized engine the engine is not running, every
\* listener of 'shutdown' was called, and window.engine is null.
C17_Original ==
    trace # <<>> /\ trace[1].op = "shutdown" /\ engine.isInitialized
    => /\ ~engine.isRunning
       /\ ListenerCalls = [k \in 1..Len(ListenersOf(engine, "shutdown")) |->
                              ListenerCall("shutdown", ListenersOf(engine, "shutdown")[k])]
       /\ page.engine = "null"

\* The store a batch loads into.
StoreOf(batch) == IF batch.kind = "models" THEN assetManager.models ELSE assetManager.textures

\* The promise of every batch is resolved exactly when each of its items has reported
\* a load or an error, and never rejected; and the key of every item that reported a
\* load is stored, whatever the other items reported.
LoadsResolveAndStore ==
    \A b \in DOMAIN assetManager.batches :
       \E batch \in {assetManager.batches[b]} :
          /\ batch.promise \in {"pending", "resolved"}
          /\ batch.promise = "resolved"
             <=> \A k \in DOMAIN batch.items :
                    \E n \in DOMAIN batch.reported : batch.reported[n].item = k
          /\ \A n \in DOMAIN batch.reported :
                batch.reported[n].outcome = "load"
                => batch.items[batch.reported[n].item].key \in DOMAIN StoreOf(batch)

LoadedOnce(kind, key) ==
    \E b \in DOMAIN assetManager.batches :
       /\ assetManager.batches[b].kind = kind
       /\ \E n \in DOMAIN assetManager.batches[b].reported :
             /\ assetManager.batches[b].reported[n].outcome = "load"
             /\ assetManager.batches[b].reported[n].value # "null"
             /\ assetManager.batches[b].items[assetManager.batches[b].reported[n].item].key = key

C21_PollReturnsQueue ==
    [][\E before \in {inputManager.keyEvents} :
       \E after \in {inputManager'.keyEvents} :
          IF trace'[1].op = "pollKeyEvents"
          THEN trace'[1].events = before /\ after = <<>>
          ELSE IF trace'[1].op = "keyup"
          THEN after = Append(before, [type |-> "keyup", key |-> ToLowerCase(trace'[1].key)])
          ELSE IF trace'[1].op = "keydown"
                  /\ ToLowerCase(trace'[1].key) \notin inputManager.keys
          THEN after = Append(before, [type |-> "keydown",
                                       key |-> ToLowerCase(trace'[1].key)])
          ELSE after = before]_vars

\* C21 witness: a poll returned a keydown and the keyup queued after it, in this order,
\* and the queue is empty.
C21_Witness ==
    /\ trace # <<>> /\ trace[1].op = "pollKeyEvents"
    /\ trace[1].events = <<[type |-> "keydown", key |-> "w"], [type |-> "keyup", key |-> "w"]>>
    /\ inputManager.keyEvents = <<>>

====
